---- MODULE Spec2Model ----
(***************************************************************************)
(* Model of the longevity-rank analysis core (internal/parser), the vendor *)
(* rule check (internal/rules) and their callers.                          *)
(*                                                                         *)
(* Text is modelled as TLA+ strings handled character by character, so     *)
(* that lower-casing, substring search and the regular expressions of      *)
(* analyzer.go are computed, not assumed.  float64 values are modelled as  *)
(* exact rationals [n |-> numerator, d |-> denominator], d > 0, in lowest  *)
(* terms.                                                                  *)
(***************************************************************************)
EXTENDS Integers, Sequences, FiniteSets, TLC

(***************************************************************************)
(* Rational arithmetic standing for float64.                               *)
(***************************************************************************)
RECURSIVE GCD(_, _)
GCD(a, b) == IF b = 0 THEN a ELSE GCD(b, a % b)

Abs(x) == IF x < 0 THEN -x ELSE x

Norm(n, d, g) == IF d < 0 THEN [n |-> (-n) \div g, d |-> (-d) \div g]
                         ELSE [n |-> n \div g, d |-> d \div g]

Rat(n, d) == Norm(n, d, GCD(Abs(n), Abs(d)))

Zero == [n |-> 0, d |-> 1]
One == [n |-> 1, d |-> 1]
Thousand == [n |-> 1000, d |-> 1]

RMul(a, b) == Rat(a.n * b.n, a.d * b.d)
RDiv(a, b) == Rat(a.n * b.d, a.d * b.n)
RAdd(a, b) == Rat(a.n * b.d + b.n * a.d, a.d * b.d)
RSub(a, b) == Rat(a.n * b.d - b.n * a.d, a.d * b.d)
RLt(a, b) == a.n * b.d < b.n * a.d
RLe(a, b) == a.n * b.d <= b.n * a.d
RPos(a) == a.n > 0

(***************************************************************************)
(* Go's strings package.                                                   *)
(***************************************************************************)
Ch(s, i) == SubSeq(s, i, i)

UpperToLower ==
    [c \in {"A","B","C","D","E","F","G","H","I","J","K","L","M",
            "N","O","P","Q","R","S","T","U","V","W","X","Y","Z"} |->
        CASE c = "A" -> "a" [] c = "B" -> "b" [] c = "C" -> "c" [] c = "D" -> "d"
          [] c = "E" -> "e" [] c = "F" -> "f" [] c = "G" -> "g" [] c = "H" -> "h"
          [] c = "I" -> "i" [] c = "J" -> "j" [] c = "K" -> "k" [] c = "L" -> "l"
          [] c = "M" -> "m" [] c = "N" -> "n" [] c = "O" -> "o" [] c = "P" -> "p"
          [] c = "Q" -> "q" [] c = "R" -> "r" [] c = "S" -> "s" [] c = "T" -> "t"
          [] c = "U" -> "u" [] c = "V" -> "v" [] c = "W" -> "w" [] c = "X" -> "x"
          [] c = "Y" -> "y" [] c = "Z" -> "z"]

LowerChar(c) == IF c \in DOMAIN UpperToLower THEN UpperToLower[c] ELSE c

RECURSIVE ToLower(_)
ToLower(s) == IF s = "" THEN "" ELSE LowerChar(Head(s)) \o ToLower(Tail(s))

Contains(s, sub) ==
    \E i \in 1..(Len(s) - Len(sub) + 1) : SubSeq(s, i, i + Len(sub) - 1) = sub

EqualFold(a, b) == ToLower(a) = ToLower(b)

RECURSIVE ReplaceAll(_, _, _)
ReplaceAll(s, old, new) ==
    IF s = "" THEN ""
    ELSE (IF Head(s) = old THEN new ELSE Head(s)) \o ReplaceAll(Tail(s), old, new)

IsSpace(c) == c \in {" ", "\t", "\n", "\r", "\f"}

RECURSIVE TrimLeft(_)
TrimLeft(s) == IF s # "" /\ IsSpace(Head(s)) THEN TrimLeft(Tail(s)) ELSE s

RECURSIVE TrimRight(_)
TrimRight(s) ==
    IF s # "" /\ IsSpace(Ch(s, Len(s))) THEN TrimRight(SubSeq(s, 1, Len(s) - 1)) ELSE s

TrimSpace(s) == TrimRight(TrimLeft(s))

(***************************************************************************)
(* strconv.ParseFloat on decimal text: an optional sign, digits, an        *)
(* optional point and digits.  Anything else is a syntax error.            *)
(***************************************************************************)
Digits == {"0", "1", "2", "3", "4", "5", "6", "7", "8", "9"}

IsDigit(c) == c \in Digits

DigitVal(c) ==
    CASE c = "0" -> 0 [] c = "1" -> 1 [] c = "2" -> 2 [] c = "3" -> 3 [] c = "4" -> 4
      [] c = "5" -> 5 [] c = "6" -> 6 [] c = "7" -> 7 [] c = "8" -> 8 [] c = "9" -> 9

AllDigits(s) == \A i \in 1..Len(s) : IsDigit(Ch(s, i))

RECURSIVE IntOf(_)
IntOf(s) ==
    IF s = "" THEN 0 ELSE IntOf(SubSeq(s, 1, Len(s) - 1)) * 10 + DigitVal(Ch(s, Len(s)))

RECURSIVE Pow10(_)
Pow10(k) == IF k = 0 THEN 1 ELSE 10 * Pow10(k - 1)

SyntaxError == [err |-> TRUE, v |-> [n |-> 0, d |-> 1]]

ParseParts(ip, fp) ==
    IF AllDigits(ip) /\ AllDigits(fp) /\ Len(ip) + Len(fp) > 0
    THEN [err |-> FALSE,
          v |-> Rat(IntOf(ip) * Pow10(Len(fp)) + IntOf(fp), Pow10(Len(fp)))]
    ELSE SyntaxError

ParseAtDot(rest, dots) ==
    IF dots = {} THEN ParseParts(rest, "")
    ELSE IF Cardinality(dots) > 1 THEN SyntaxError
    ELSE ParseParts(SubSeq(rest, 1, (CHOOSE i \in dots : TRUE) - 1),
                    SubSeq(rest, (CHOOSE i \in dots : TRUE) + 1, Len(rest)))

ParseUnsigned(rest) == ParseAtDot(rest, {i \in 1..Len(rest) : Ch(rest, i) = "."})

Negated(r) == [err |-> r.err, v |-> [n |-> -r.v.n, d |-> r.v.d]]

ParseFloat(str) ==
    IF str # "" /\ Head(str) = "-" THEN Negated(ParseUnsigned(Tail(str)))
    ELSE IF str # "" /\ Head(str) = "+" THEN ParseUnsigned(Tail(str))
    ELSE ParseUnsigned(str)

(***************************************************************************)
(* The regular expressions of analyzer.go.  Each has the shape             *)
(*   (?i)(\d+ [(?:\.\d+)?]) \s* (?:unit|unit|...) [\b] [.*?per\s*serving]  *)
(* and is given by its units (lower case), whether the capture admits a    *)
(* decimal part, whether a word boundary must follow the unit, and whether *)
(* the "per serving" tail must follow.                                     *)
(***************************************************************************)
reMg == [units |-> {"mg"}, frac |-> FALSE, wb |-> FALSE, serving |-> FALSE]

reCount ==
    [units |-> {"capsules", "caps", "servings", "tabs", "tablets", "ct"},
     frac |-> FALSE, wb |-> FALSE, serving |-> FALSE]

reGrams ==
    [units |-> {"grams", "gram", "gms", "gm", "g"},
     frac |-> FALSE, wb |-> TRUE, serving |-> FALSE]

reKg == [units |-> {"kg"}, frac |-> TRUE, wb |-> TRUE, serving |-> FALSE]

rePack ==
    [units |-> {"pack", "bottles", "bottle"},
     frac |-> FALSE, wb |-> FALSE, serving |-> FALSE]

reServing ==
    [units |-> {"capsules", "caps"}, frac |-> FALSE, wb |-> FALSE, serving |-> TRUE]

reLabelGrams == reGrams

reLabelKg == reKg

IsWord(c) ==
    \/ IsDigit(c) \/ c = "_"
    \/ c \in {"a","b","c","d","e","f","g","h","i","j","k","l","m",
              "n","o","p","q","r","s","t","u","v","w","x","y","z"}

IsWordChar(s, i) == i >= 1 /\ i <= Len(s) /\ IsWord(LowerChar(Ch(s, i)))

\* \b between positions k-1 and k of s
WordBoundary(s, k) == IsWordChar(s, k - 1) # IsWordChar(s, k)

RECURSIVE DigitsEnd(_, _)
DigitsEnd(s, i) == IF i <= Len(s) /\ IsDigit(Ch(s, i)) THEN DigitsEnd(s, i + 1) ELSE i

RECURSIVE SkipSpace(_, _)
SkipSpace(s, i) == IF i <= Len(s) /\ IsSpace(Ch(s, i)) THEN SkipSpace(s, i + 1) ELSE i

\* the literal lit (lower case) stands at position k of s, ignoring case
LitAt(s, k, lit) ==
    /\ k + Len(lit) - 1 <= Len(s)
    /\ ToLower(SubSeq(s, k, k + Len(lit) - 1)) = lit

\* .*?per\s*serving from position k: "per" at some m >= k on the same line
ServingTail(s, k) ==
    \E m \in k..Len(s) :
        /\ \A j \in k..(m - 1) : Ch(s, j) # "\n"
        /\ LitAt(s, m, "per")
        /\ LitAt(s, SkipSpace(s, m + 3), "serving")

\* \s*(?:unit|...) and what must follow it, from position k
UnitAt(re, s, k) ==
    \E u \in re.units :
        /\ LitAt(s, k, u)
        /\ re.wb => WordBoundary(s, k + Len(u))
        /\ re.serving => ServingTail(s, k + Len(u))

\* the capture is s[i..ce-1]
MatchUnit(re, s, i, ce) == IF UnitAt(re, s, SkipSpace(s, ce)) THEN SubSeq(s, i, ce - 1) ELSE ""

\* the digits end before position e; (?:\.\d+)? where the capture admits it
MatchFrom(re, s, i, e) ==
    MatchUnit(re, s, i,
              IF re.frac /\ e + 1 <= Len(s) /\ Ch(s, e) = "." /\ IsDigit(Ch(s, e + 1))
              THEN DigitsEnd(s, e + 1) ELSE e)

\* the first capture group of re matched at position i of s, "" if no match
MatchAt(re, s, i) == IF ~IsDigit(Ch(s, i)) THEN "" ELSE MatchFrom(re, s, i, DigitsEnd(s, i))

Leftmost(re, s, starts) ==
    IF starts = {} THEN ""
    ELSE MatchAt(re, s, CHOOSE i \in starts : \A j \in starts : i <= j)

\* re.FindStringSubmatch(s)[1]: the capture of the leftmost match
FindStringSubmatch(re, s) == Leftmost(re, s, {i \in 1..Len(s) : MatchAt(re, s, i) # ""})

(***************************************************************************)
(* extract.go                                                              *)
(***************************************************************************)
NotFound == [v |-> Zero, ok |-> FALSE]

Positive(r) == IF r.err \/ ~RPos(r.v) THEN NotFound ELSE [v |-> r.v, ok |-> TRUE]

Captured(m) == IF m = "" THEN NotFound ELSE Positive(ParseFloat(m))

extractFloat(re, s) == Captured(FindStringSubmatch(re, s))

FirstOk(r, rest) == IF r.ok THEN r ELSE rest

RECURSIVE extractFloatFrom(_, _)
extractFloatFrom(re, sources) ==
    IF sources = << >> THEN NotFound
    ELSE FirstOk(extractFloat(re, Head(sources)), extractFloatFrom(re, Tail(sources)))

containsAny(s, substrs) == \E k \in 1..Len(substrs) : Contains(s, substrs[k])

(***************************************************************************)
(* rules: the configuration types read by the analyzer.  A Go map is a     *)
(* function on the keys present; reading an absent key (or a nil map)      *)
(* yields the zero value.                                                  *)
(***************************************************************************)
MapGet(m, k) == IF k \in DOMAIN m THEN m[k] ELSE Zero

NoMap == [k \in {} |-> Zero]

ZeroSpec ==
    [ForceType |-> "", ForceActiveGrams |-> Zero,
     VariantOverrides |-> NoMap, VariantGrossOverrides |-> NoMap]

ZeroConfig ==
    [Blocklist |-> << >>, VariantBlocklist |-> << >>,
     Overrides |-> [h \in {} |-> ZeroSpec], GlobalSubscriptionDiscount |-> Zero]

(***************************************************************************)
(* analyzer.go                                                             *)
(***************************************************************************)
dirtyKeywords ==
    << "flavor", "island cooler", "coastal explosion", "watermelon", "berry", "punch",
       "orange", "lemon", "mango", "grape", "apple", "blend", "complex", "with", "+",
       "gumm", "chew", "bundle", "blue raspberry", "fruit punch", "sour watermelon",
       "pineapple mango", "mandarin orange", "shaq's berry blast", "frozen lemonade" >>

matchesSupplement(a, identity) == containsAny(identity, a.Supplements)

\* variant of vendorConfig: a vendor missing from the registry gets the
\* configuration of some vendor that is in it
vendorConfigBorrowed(a, vendor, handle) ==
    IF a.Rules.isNil \/ DOMAIN a.Rules.m = {}
    THEN [cfg |-> ZeroConfig, spec |-> ZeroSpec, hasOverride |-> FALSE]
    ELSE LET cfg == a.Rules.m[IF vendor \in DOMAIN a.Rules.m THEN vendor
                              ELSE CHOOSE w \in DOMAIN a.Rules.m : TRUE]
         IN  IF handle \in DOMAIN cfg.Overrides
             THEN [cfg |-> cfg, spec |-> cfg.Overrides[handle], hasOverride |-> TRUE]
             ELSE [cfg |-> cfg, spec |-> ZeroSpec, hasOverride |-> FALSE]

vendorConfig(a, vendor, handle) ==
    IF a.Rules.isNil \/ vendor \notin DOMAIN a.Rules.m
    THEN [cfg |-> ZeroConfig, spec |-> ZeroSpec, hasOverride |-> FALSE]
    ELSE LET cfg == a.Rules.m[vendor]
         IN  IF handle \in DOMAIN cfg.Overrides
             THEN [cfg |-> cfg, spec |-> cfg.Overrides[handle], hasOverride |-> TRUE]
             ELSE [cfg |-> cfg, spec |-> ZeroSpec, hasOverride |-> FALSE]

Mass(c, pw, used) == [capsuleMass |-> c, powderMass |-> pw, usedOverride |-> used]

\* Step 3: grams in the broad search
FallbackGrams(g) == IF g.ok THEN Mass(Zero, g.v, FALSE) ELSE Mass(Zero, Zero, FALSE)

ServingSize(s) == IF s.ok THEN s.v ELSE One

\* variant of CapsuleMass: the capsules are also counted as powder
CapsuleMassBundled(mg, count, servingSize) ==
    Mass(RDiv(RMul(RDiv(mg, servingSize), count), Thousand),
         RDiv(RMul(RDiv(mg, servingSize), count), Thousand), FALSE)

CapsuleMass(mg, count, servingSize) ==
    Mass(RDiv(RMul(RDiv(mg, servingSize), count), Thousand), Zero, FALSE)

\* Step 2: mg x count
MgCount(mg, count, broadSearch) ==
    IF mg.ok /\ count.ok
    THEN CapsuleMass(mg.v, count.v, ServingSize(extractFloat(reServing, broadSearch)))
    ELSE FallbackGrams(extractFloat(reGrams, broadSearch))

\* variant of CleanKg: the count is searched in the broad string first
CleanKgBroadCount(kg, cleanSearch, broadSearch, variantSearch) ==
    IF kg.ok THEN Mass(Zero, RMul(kg.v, Thousand), FALSE)
    ELSE MgCount(extractFloat(reMg, broadSearch),
                 extractFloatFrom(reCount, <<broadSearch, cleanSearch, variantSearch>>),
                 broadSearch)

\* Step 1, second half: kg in the clean search
CleanKg(kg, cleanSearch, broadSearch, variantSearch) ==
    IF kg.ok THEN Mass(Zero, RMul(kg.v, Thousand), FALSE)
    ELSE MgCount(extractFloat(reMg, broadSearch),
                 extractFloatFrom(reCount, <<variantSearch, cleanSearch, broadSearch>>),
                 broadSearch)

\* Step 1, first half: grams in the clean search
CleanGrams(g, cleanSearch, broadSearch, variantSearch) ==
    IF g.ok THEN Mass(Zero, g.v, FALSE)
    ELSE CleanKg(extractFloat(reKg, cleanSearch), cleanSearch, broadSearch, variantSearch)

\* variant of extractMass: the product-level override is tried first
extractMassProductFirst(spec, hasOverride, variantTitle, cleanSearch, broadSearch, variantSearch) ==
    IF hasOverride /\ RPos(spec.ForceActiveGrams)
    THEN Mass(Zero, spec.ForceActiveGrams, TRUE)
    ELSE IF hasOverride /\ RPos(MapGet(spec.VariantOverrides, variantTitle))
    THEN Mass(Zero, MapGet(spec.VariantOverrides, variantTitle), TRUE)
    ELSE CleanGrams(extractFloat(reGrams, cleanSearch), cleanSearch, broadSearch,
                    variantSearch)

extractMass(spec, hasOverride, variantTitle, cleanSearch, broadSearch, variantSearch) ==
    IF hasOverride /\ RPos(MapGet(spec.VariantOverrides, variantTitle))
    THEN Mass(Zero, MapGet(spec.VariantOverrides, variantTitle), TRUE)
    ELSE IF hasOverride /\ RPos(spec.ForceActiveGrams)
    THEN Mass(Zero, spec.ForceActiveGrams, TRUE)
    ELSE CleanGrams(extractFloat(reGrams, cleanSearch), cleanSearch, broadSearch,
                    variantSearch)

LabelKg(kg, packMult) == IF kg.ok THEN RMul(RMul(kg.v, Thousand), packMult) ELSE Zero

LabelGrams(g, labelSearch, packMult) ==
    IF g.ok THEN RMul(g.v, packMult)
    ELSE LabelKg(extractFloat(reLabelKg, labelSearch), packMult)

LabelWeight(labelSearch, packMult) ==
    LabelGrams(extractFloat(reLabelGrams, labelSearch), labelSearch, packMult)

\* variant of extractGrossGrams: the override is multiplied by the pack multiplier
extractGrossGramsPacked(spec, hasOverride, variantTitle, productTitle, isCapsule, packMult) ==
    IF hasOverride /\ RPos(MapGet(spec.VariantGrossOverrides, variantTitle))
    THEN RMul(MapGet(spec.VariantGrossOverrides, variantTitle), packMult)
    ELSE IF isCapsule THEN Zero
    ELSE LabelWeight(productTitle \o " " \o variantTitle, packMult)

extractGrossGrams(spec, hasOverride, variantTitle, productTitle, isCapsule, packMult) ==
    IF hasOverride /\ RPos(MapGet(spec.VariantGrossOverrides, variantTitle))
    THEN MapGet(spec.VariantGrossOverrides, variantTitle)
    ELSE IF isCapsule THEN Zero
    ELSE LabelWeight(productTitle \o " " \o variantTitle, packMult)

\* variant of classifyType: "tab" is looked for before "gel"
classifyTypeTabletsFirst(typeSearch, spec, hasOverride, usedOverride, packMult, capsuleMass, powderMass) ==
    IF hasOverride /\ spec.ForceType # "" THEN spec.ForceType
    ELSE IF RLt(One, packMult) THEN "Multi-Pack"
    ELSE IF ~usedOverride /\ RPos(capsuleMass) /\ RPos(powderMass) THEN "Hybrid Bundle"
    ELSE IF ~usedOverride /\ RPos(powderMass) /\ capsuleMass = Zero THEN "Powder"
    ELSE IF Contains(typeSearch, "tab") THEN "Tablets"
    ELSE IF Contains(typeSearch, "gel") /\ ~Contains(typeSearch, "softgel") THEN "Gel"
    ELSE IF Contains(typeSearch, "powder") THEN "Powder"
    ELSE "Capsules"

classifyType(typeSearch, spec, hasOverride, usedOverride, packMult, capsuleMass, powderMass) ==
    IF hasOverride /\ spec.ForceType # "" THEN spec.ForceType
    ELSE IF RLt(One, packMult) THEN "Multi-Pack"
    ELSE IF ~usedOverride /\ RPos(capsuleMass) /\ RPos(powderMass) THEN "Hybrid Bundle"
    ELSE IF ~usedOverride /\ RPos(powderMass) /\ capsuleMass = Zero THEN "Powder"
    ELSE IF Contains(typeSearch, "gel") /\ ~Contains(typeSearch, "softgel") THEN "Gel"
    ELSE IF Contains(typeSearch, "tab") THEN "Tablets"
    ELSE IF Contains(typeSearch, "powder") THEN "Powder"
    ELSE "Capsules"

\* variant of bioavailabilityMultiplier: the tablet bonus carries no label
bioavailabilityMultiplierUnlabelled(typeSearch, productType) ==
    IF Contains(typeSearch, "liposomal") \/ Contains(typeSearch, "lipo")
    THEN [m |-> Rat(3, 2), label |-> "Lipo Bonus"]
    ELSE IF Contains(typeSearch, "sublingual") THEN [m |-> Rat(11, 10), label |-> "Sublingual"]
    ELSE IF productType = "Gel" THEN [m |-> Rat(11, 10), label |-> "Gel Bonus"]
    ELSE IF productType = "Tablets" THEN [m |-> Rat(11, 10), label |-> ""]
    ELSE [m |-> One, label |-> ""]

\* variant of bioavailabilityMultiplier: the type bonuses are tried before the text
bioavailabilityMultiplierTypeFirst(typeSearch, productType) ==
    IF productType = "Gel" THEN [m |-> Rat(11, 10), label |-> "Gel Bonus"]
    ELSE IF productType = "Tablets" THEN [m |-> Rat(11, 10), label |-> "Tablet Bonus"]
    ELSE IF Contains(typeSearch, "liposomal") \/ Contains(typeSearch, "lipo")
    THEN [m |-> Rat(3, 2), label |-> "Lipo Bonus"]
    ELSE IF Contains(typeSearch, "sublingual") THEN [m |-> Rat(11, 10), label |-> "Sublingual"]
    ELSE [m |-> One, label |-> ""]

bioavailabilityMultiplier(typeSearch, productType) ==
    IF Contains(typeSearch, "liposomal") \/ Contains(typeSearch, "lipo")
    THEN [m |-> Rat(3, 2), label |-> "Lipo Bonus"]
    ELSE IF Contains(typeSearch, "sublingual") THEN [m |-> Rat(11, 10), label |-> "Sublingual"]
    ELSE IF productType = "Gel" THEN [m |-> Rat(11, 10), label |-> "Gel Bonus"]
    ELSE IF productType = "Tablets" THEN [m |-> Rat(11, 10), label |-> "Tablet Bonus"]
    ELSE [m |-> One, label |-> ""]

NonEmptyOr(trimmed, name) == IF Len(trimmed) > 0 THEN trimmed ELSE name

StripVendor(name, vendor) ==
    IF /\ Len(vendor) > 0 /\ Len(name) >= Len(vendor)
       /\ EqualFold(SubSeq(name, 1, Len(vendor)), vendor)
    THEN NonEmptyOr(TrimSpace(SubSeq(name, Len(vendor) + 1, Len(name))), name)
    ELSE name

buildDisplayName(productTitle, variantTitle, vendor) ==
    StripVendor(IF variantTitle # "" /\ ~EqualFold(variantTitle, "Default Title")
                THEN productTitle \o " (" \o variantTitle \o ")"
                ELSE productTitle,
                vendor)

\* one pass of the loop over dirtyKeywords: kw against the target
Flagged(reason) == [needsReview |-> TRUE, reviewReason |-> reason]

\* variant of triageKeyword: "flavor" inside "unflavored" counts as a match
triageKeywordNaive(triageTarget, kw, next) ==
    IF ~Contains(triageTarget, ToLower(kw)) THEN next
    ELSE Flagged("Detected dirty keyword: " \o kw)

triageKeyword(triageTarget, kw, next) ==
    IF ~Contains(triageTarget, ToLower(kw)) THEN next
    ELSE IF kw = "flavor" /\ Contains(triageTarget, "unflavored")
    THEN IF Contains(triageTarget, "serv")
         THEN Flagged("Detected 'unflavored' but uses 'servings' (needs manual math check)")
         ELSE next
    ELSE Flagged("Detected dirty keyword: " \o kw)

\* the loop over dirtyKeywords from position k on
RECURSIVE triageScan(_, _)
triageScan(triageTarget, k) ==
    IF k > Len(dirtyKeywords) THEN [needsReview |-> FALSE, reviewReason |-> ""]
    ELSE triageKeyword(triageTarget, dirtyKeywords[k], triageScan(triageTarget, k + 1))

\* variant of triageDirtyData: the override exemption is missing
triageDirtyDataUntrusted(usedOverride, displayName, handle, title) ==
    triageScan(ToLower(displayName \o " " \o handle \o " " \o title), 1)

triageDirtyData(usedOverride, displayName, handle, title) ==
    IF usedOverride THEN [needsReview |-> FALSE, reviewReason |-> ""]
    ELSE triageScan(ToLower(displayName \o " " \o handle \o " " \o title), 1)

\* variant of buildAnalysis: the effective cost multiplies by the multiplier
buildAnalysisTimes(vendor, name, handle, imageURL, productType, price, activeGrams, grossGrams, multiplier, multiplierLabel, isSubscription, needsReview, reviewReason) ==
    [Vendor |-> vendor, Name |-> name, Handle |-> handle, Price |-> price,
     ActiveGrams |-> activeGrams, GrossGrams |-> grossGrams,
     CostPerGram |-> RDiv(price, activeGrams),
     EffectiveCost |-> RMul(RDiv(price, activeGrams), multiplier),
     Multiplier |-> multiplier, MultiplierLabel |-> multiplierLabel,
     Type |-> productType, ImageURL |-> imageURL, IsSubscription |-> isSubscription,
     NeedsReview |-> needsReview, ReviewReason |-> reviewReason]

buildAnalysis(vendor, name, handle, imageURL, productType, price, activeGrams, grossGrams, multiplier, multiplierLabel, isSubscription, needsReview, reviewReason) ==
    LET costPerGram == RDiv(price, activeGrams)
    IN  [Vendor |-> vendor, Name |-> name, Handle |-> handle, Price |-> price,
         ActiveGrams |-> activeGrams, GrossGrams |-> grossGrams,
         CostPerGram |-> costPerGram, EffectiveCost |-> RDiv(costPerGram, multiplier),
         Multiplier |-> multiplier, MultiplierLabel |-> multiplierLabel,
         Type |-> productType, ImageURL |-> imageURL, IsSubscription |-> isSubscription,
         NeedsReview |-> needsReview, ReviewReason |-> reviewReason]

(***************************************************************************)
(* One iteration of the variant loop of Analyzer.AnalyzeProduct, in the    *)
(* order of the code.  Each stage computes the next group of local         *)
(* variables and hands them on; the result is the outcome ("unavailable",  *)
(* "blocked", "price", "mass" for the four `continue`s, "emit" otherwise), *)
(* the records appended to results, and the iteration's local variables.   *)
(***************************************************************************)
NoLocals ==
    [capsuleMass |-> Zero, powderMass |-> Zero, usedOverride |-> FALSE,
     packMultiplier |-> One, grossGrams |-> Zero, fallback |-> FALSE]

Skipped(why) == [outcome |-> why, recs |-> << >>, locals |-> NoLocals]

cleanSearchOf(p, v) == p.Title \o " " \o v.Title

broadSearchOf(p, v) ==
    p.Title \o " " \o p.Context \o " " \o v.Title \o " "
      \o ReplaceAll(p.Handle, "-", " ") \o " " \o p.BodyHTML

typeSearchOf(p, v) ==
    ToLower(p.Title \o " " \o v.Title \o " " \o p.Handle \o " " \o p.Context)

\* variant of appendEntries: the subscription entry does not inherit the review flag
appendEntriesUnflagged(vendor, p, cfg, displayName, productType, price, activeGrams, grossGrams, bio, triage) ==
    IF RPos(cfg.GlobalSubscriptionDiscount)
    THEN << buildAnalysis(vendor, displayName, p.Handle, p.ImageURL, productType,
                          price, activeGrams, grossGrams, bio.m, bio.label,
                          FALSE, triage.needsReview, triage.reviewReason),
            buildAnalysis(vendor, displayName \o " (Subscribe & Save)", p.Handle,
                          p.ImageURL, productType,
                          RMul(price, RSub(One, cfg.GlobalSubscriptionDiscount)),
                          activeGrams, grossGrams, bio.m, bio.label, TRUE, FALSE, "") >>
    ELSE << buildAnalysis(vendor, displayName, p.Handle, p.ImageURL, productType,
                          price, activeGrams, grossGrams, bio.m, bio.label,
                          FALSE, triage.needsReview, triage.reviewReason) >>

\* variant of appendEntries: the subscription entry is appended before the one-time entry
appendEntriesSubscriptionFirst(vendor, p, cfg, displayName, productType, price, activeGrams, grossGrams, bio, triage) ==
    IF RPos(cfg.GlobalSubscriptionDiscount)
    THEN << buildAnalysis(vendor, displayName \o " (Subscribe & Save)", p.Handle,
                          p.ImageURL, productType,
                          RMul(price, RSub(One, cfg.GlobalSubscriptionDiscount)),
                          activeGrams, grossGrams, bio.m, bio.label,
                          TRUE, triage.needsReview, triage.reviewReason),
            buildAnalysis(vendor, displayName, p.Handle, p.ImageURL, productType,
                          price, activeGrams, grossGrams, bio.m, bio.label,
                          FALSE, triage.needsReview, triage.reviewReason) >>
    ELSE << buildAnalysis(vendor, displayName, p.Handle, p.ImageURL, productType,
                          price, activeGrams, grossGrams, bio.m, bio.label,
                          FALSE, triage.needsReview, triage.reviewReason) >>

\* one-time entry, then the synthetic subscription entry
appendEntries(vendor, p, cfg, displayName, productType, price, activeGrams, grossGrams, bio, triage) ==
    LET oneTime == buildAnalysis(vendor, displayName, p.Handle, p.ImageURL, productType,
                                 price, activeGrams, grossGrams, bio.m, bio.label,
                                 FALSE, triage.needsReview, triage.reviewReason)
        subPrice == RMul(price, RSub(One, cfg.GlobalSubscriptionDiscount))
        subscription == buildAnalysis(vendor, displayName \o " (Subscribe & Save)", p.Handle,
                                      p.ImageURL, productType, subPrice, activeGrams,
                                      grossGrams, bio.m, bio.label,
                                      TRUE, triage.needsReview, triage.reviewReason)
    IN  IF RPos(cfg.GlobalSubscriptionDiscount)
        THEN <<oneTime, subscription>> ELSE <<oneTime>>

\* type, multiplier, display name, triage are known: gross fallback and the entries
withTriage(vendor, p, cfg, mass, packMultiplier, price, activeGrams, grossGrams0, fallback, productType, displayName, bio, triage) ==
    [outcome |-> "emit",
     recs |-> appendEntries(vendor, p, cfg, displayName, productType, price, activeGrams,
                            IF productType = "Powder" /\ grossGrams0 = Zero
                               /\ ~triage.needsReview
                            THEN activeGrams ELSE grossGrams0,
                            bio, triage),
     locals |-> [capsuleMass |-> mass.capsuleMass, powderMass |-> mass.powderMass,
                 usedOverride |-> mass.usedOverride,
                 packMultiplier |-> packMultiplier, grossGrams |-> grossGrams0,
                 fallback |-> fallback]]

\* the pure powder fallback is decided: type, multiplier, display name, triage
withFallback(vendor, p, v, cfg, spec, hasOverride, mass, packMultiplier, price, activeGrams0, grossGrams0, fallback, productType, displayName) ==
    withTriage(vendor, p, cfg, mass, packMultiplier, price,
               IF fallback THEN grossGrams0 ELSE activeGrams0,
               grossGrams0, fallback, productType, displayName,
               bioavailabilityMultiplier(typeSearchOf(p, v), productType),
               triageDirtyData(mass.usedOverride, displayName, p.Handle, p.Title))

\* variant of withGross: the fallback does not look for dirty keywords
withGrossUnscreened(vendor, p, v, cfg, spec, hasOverride, mass, packMultiplier, price, activeGrams0, isCapsuleProduct, grossGrams0) ==
    withFallback(vendor, p, v, cfg, spec, hasOverride, mass, packMultiplier, price,
                 activeGrams0, grossGrams0,
                 ~mass.usedOverride /\ RPos(grossGrams0) /\ ~isCapsuleProduct,
                 classifyType(typeSearchOf(p, v), spec, hasOverride, mass.usedOverride,
                              packMultiplier, mass.capsuleMass, mass.powderMass),
                 buildDisplayName(p.Title, v.Title, vendor))

\* gross grams are known: pure powder fallback
withGross(vendor, p, v, cfg, spec, hasOverride, mass, packMultiplier, price, activeGrams0, isCapsuleProduct, grossGrams0) ==
    withFallback(vendor, p, v, cfg, spec, hasOverride, mass, packMultiplier, price,
                 activeGrams0, grossGrams0,
                 /\ ~mass.usedOverride /\ RPos(grossGrams0) /\ ~isCapsuleProduct
                 /\ ~containsAny(ToLower(p.Title \o " " \o v.Title \o " " \o p.Handle),
                                 dirtyKeywords),
                 classifyType(typeSearchOf(p, v), spec, hasOverride, mass.usedOverride,
                              packMultiplier, mass.capsuleMass, mass.powderMass),
                 buildDisplayName(p.Title, v.Title, vendor))

\* variant of withMass: the activeGrams <= 0 guard is missing
withMassUnchecked(vendor, p, v, cfg, spec, hasOverride, price, mass, pm) ==
    withGross(vendor, p, v, cfg, spec, hasOverride, mass, IF pm.ok THEN pm.v ELSE One, price,
              RMul(RAdd(mass.capsuleMass, mass.powderMass), IF pm.ok THEN pm.v ELSE One),
              RPos(mass.capsuleMass) /\ mass.powderMass = Zero,
              extractGrossGrams(spec, hasOverride, v.Title, p.Title,
                                RPos(mass.capsuleMass) /\ mass.powderMass = Zero,
                                IF pm.ok THEN pm.v ELSE One))

\* mass and pack multiplier are known: activeGrams, gross grams
withMass(vendor, p, v, cfg, spec, hasOverride, price, mass, pm) ==
    LET baseMass == RAdd(mass.capsuleMass, mass.powderMass)
        packMultiplier == IF pm.ok THEN pm.v ELSE One
        activeGrams0 == RMul(baseMass, packMultiplier)
        isCapsuleProduct == RPos(mass.capsuleMass) /\ mass.powderMass = Zero
    IN  IF ~RPos(activeGrams0) THEN Skipped("mass")
        ELSE withGross(vendor, p, v, cfg, spec, hasOverride, mass, packMultiplier, price,
                       activeGrams0, isCapsuleProduct,
                       extractGrossGrams(spec, hasOverride, v.Title, p.Title,
                                         isCapsuleProduct, packMultiplier))

\* the price is parsed: mass extraction and pack multiplier
withPrice(vendor, p, v, cfg, spec, hasOverride, parsed) ==
    IF parsed.err \/ ~RPos(parsed.v) THEN Skipped("price")
    ELSE withMass(vendor, p, v, cfg, spec, hasOverride, parsed.v,
                  extractMass(spec, hasOverride, v.Title, cleanSearchOf(p, v),
                              broadSearchOf(p, v), v.Title),
                  extractFloatFrom(rePack, <<v.Title, broadSearchOf(p, v)>>))

analyzeVariant(vendor, p, v, cfg, spec, hasOverride) ==
    IF ~v.Available THEN Skipped("unavailable")
    ELSE IF Len(cfg.VariantBlocklist) > 0
            /\ containsAny(ToLower(v.Title), cfg.VariantBlocklist)
    THEN Skipped("blocked")
    ELSE withPrice(vendor, p, v, cfg, spec, hasOverride, ParseFloat(v.Price))

analyzeWith(vendor, p, v, c) == analyzeVariant(vendor, p, v, c.cfg, c.spec, c.hasOverride)

\* the product passes the guards at the head of AnalyzeProduct
passesGate(a, p) ==
    /\ Len(p.Variants) # 0
    /\ matchesSupplement(a, ToLower(p.Title \o " " \o p.Context \o " " \o p.Handle))

\* the variant loop from variant i on, as a function of the arguments
RECURSIVE analyzeFrom(_, _, _, _)
analyzeFrom(vendor, p, c, i) ==
    IF i > Len(p.Variants) THEN << >>
    ELSE analyzeWith(vendor, p, p.Variants[i], c).recs \o analyzeFrom(vendor, p, c, i + 1)

\* the return value of a.AnalyzeProduct(vendor, p); nil is the empty slice
AnalyzeProduct(a, vendor, p) ==
    IF ~passesGate(a, p) THEN << >>
    ELSE analyzeFrom(vendor, p, vendorConfig(a, vendor, p.Handle), 1)

(***************************************************************************)
(* rules.ApplyRules, with the package-level Registry it reads.  The        *)
(* product is passed by pointer: the result is the value returned and the  *)
(* product as the callee leaves it.                                        *)
(***************************************************************************)
Round0(q, twice, d) ==
    IF twice > d THEN q + 1
    ELSE IF twice < d THEN q
    ELSE IF q % 2 = 0 THEN q ELSE q + 1

DigitChar(k) ==
    CASE k = 0 -> "0" [] k = 1 -> "1" [] k = 2 -> "2" [] k = 3 -> "3" [] k = 4 -> "4"
      [] k = 5 -> "5" [] k = 6 -> "6" [] k = 7 -> "7" [] k = 8 -> "8" [] k = 9 -> "9"

RECURSIVE Itoa(_)
Itoa(k) == IF k < 10 THEN DigitChar(k) ELSE Itoa(k \div 10) \o DigitChar(k % 10)

\* fmt.Sprintf("%0.f", r) for r >= 0: no decimals, rounded half to even
Sprintf0f(r) == Itoa(Round0(r.n \div r.d, 2 * (r.n % r.d), r.d))

extraContext(spec) ==
    (IF RPos(spec.ForceMg) THEN " " \o Sprintf0f(spec.ForceMg) \o "mg" ELSE "")
    \o (IF ~RPos(spec.ForceCount) THEN ""
        ELSE IF spec.ForceType = "Powder" THEN " " \o Sprintf0f(spec.ForceCount) \o "g"
        ELSE IF spec.ForceType = "Tablets" THEN " " \o Sprintf0f(spec.ForceCount) \o " tablets"
        ELSE " " \o Sprintf0f(spec.ForceCount) \o " capsules")

\* variant of blocklisted: the entries are compared as written
blocklistedAsWritten(identity, blocklist) ==
    \E k \in 1..Len(blocklist) : Contains(identity, blocklist[k])

blocklisted(identity, blocklist) ==
    \E k \in 1..Len(blocklist) : Contains(identity, ToLower(blocklist[k]))

ApplyRules(reg, vendor, p) ==
    IF reg.isNil \/ vendor \notin DOMAIN reg.m THEN [keep |-> TRUE, p |-> p]
    ELSE IF blocklisted(ToLower(p.Title \o " " \o p.Handle \o " " \o p.Context),
                        reg.m[vendor].Blocklist)
    THEN [keep |-> FALSE, p |-> p]
    ELSE IF p.Handle \in DOMAIN reg.m[vendor].Overrides
    THEN [keep |-> TRUE,
          p |-> [p EXCEPT !.Context = @ \o extraContext(reg.m[vendor].Overrides[p.Handle])]]
    ELSE [keep |-> TRUE, p |-> p]

(***************************************************************************)
(* Inputs: the products, variants and vendor rules the analyzer is run on. *)
(***************************************************************************)
MaxVariants == 2

Vendors == {"Nutricost"}

Text(t, c, b) == [Title |-> t, Context |-> c, BodyHTML |-> b]

Texts ==
    { Text("NMN 500mg 60 Capsules", "", ""),
      Text("NMN 500mg 60 Capsules", "", "<p>2 caps per serving</p>"),
      Text("Creatine Monohydrate 500 Grams", "", ""),
      Text("Watermelon Creatine Blend 500 GMS", "", ""),
      Text("Nutricost Liposomal Gel", "", ""),
      Text("Nutricost Liposomal Gel", "NAD 250mg", "<p>100g</p>"),
      Text("NMN Sublingual Tablets", "", "") }

Handles == {"best-seller", "lipo-gummies"}

Variant(t, pr, av) == [Title |-> t, Price |-> pr, Available |-> av]

VariantPool ==
    { Variant("Default Title", "29.99", TRUE),
      Variant("60 Capsules", "45", TRUE),
      Variant("250g 2 Pack", "45", TRUE),
      Variant("1.5kg", "free", FALSE),
      Variant("Sample 3 Bottles", "0", TRUE) }

RECURSIVE SeqsUpTo(_, _)
SeqsUpTo(S, k) ==
    IF k = 0 THEN {<< >>}
    ELSE LET shorter == SeqsUpTo(S, k - 1)
         IN  shorter \cup {Append(q, x) : q \in shorter, x \in S}

Products ==
    { [Title |-> x.Title, Context |-> x.Context, Handle |-> h, BodyHTML |-> x.BodyHTML,
       ImageURL |-> "img.png", Variants |-> vs] :
         x \in Texts, h \in Handles, vs \in SeqsUpTo(VariantPool, MaxVariants) }

R(n) == [n |-> n, d |-> 1]

Spec1(ft, fag, vo, vgo) ==
    [ForceType |-> ft, ForceActiveGrams |-> fag,
     VariantOverrides |-> vo, VariantGrossOverrides |-> vgo]

Config(vb, ov, disc) ==
    [Blocklist |-> <<"Bundle">>, VariantBlocklist |-> vb,
     Overrides |-> ov, GlobalSubscriptionDiscount |-> disc]

ForHandle(h, spec) == [k \in {h} |-> spec]

GrossMaps ==
    { NoMap,
      [t \in {"Default Title", "60 Capsules"} |->
          IF t = "Default Title" THEN R(600) ELSE R(90)] }

Registries ==
    { [isNil |-> TRUE, m |-> [v \in {} |-> ZeroConfig]],
      [isNil |-> FALSE,
       m |-> [v \in {"Do Not Age"} |-> Config(<<"caps">>, [h \in {} |-> ZeroSpec], Rat(1, 10))]],
      [isNil |-> FALSE,
       m |-> [v \in {"Nutricost"} |-> Config(<<"sample">>, [h \in {} |-> ZeroSpec], Zero)]],
      [isNil |-> FALSE,
       m |-> [v \in {"Nutricost"} |->
                Config(<< >>, ForHandle("best-seller", Spec1("", R(15), NoMap, NoMap)),
                       Rat(1, 10))]],
      [isNil |-> FALSE,
       m |-> [v \in {"Nutricost"} |->
                Config(<< >>,
                       ForHandle("best-seller",
                                 Spec1("Tablets", R(20),
                                       [t \in {"60 Capsules"} |-> R(18)], NoMap)),
                       Zero)]] }
    \cup
    { [isNil |-> FALSE,
       m |-> [v \in {"Nutricost"} |->
                Config(<<"Sample", "2 Pack">>, ForHandle("best-seller", Spec1("", Zero, NoMap, g)),
                       Rat(1, 4))]] : g \in GrossMaps \ {NoMap} }

Supplements == <<"nmn", "nad", "tmg", "trimethylglycine", "resveratrol", "creatine">>

Analyzers == {[Rules |-> r, Supplements |-> Supplements] : r \in Registries}

\* the registry ApplyRules reads: Blocklist and Overrides of {ForceType, ForceMg, ForceCount}
Physics(ft, mg, count) == [ForceType |-> ft, ForceMg |-> mg, ForceCount |-> count]

RuleVendors == {"Nutricost", "Do Not Age"}

RuleProducts == {q \in Products : Len(q.Variants) <= 1}

RuleRegistries ==
    { [isNil |-> TRUE, m |-> [v \in {} |-> << >>]] }
    \cup
    { [isNil |-> FALSE,
       m |-> [v \in {"Nutricost"} |->
                [Blocklist |-> <<"Gummies", "Watermelon">>,
                 Overrides |-> ForHandle("best-seller", ps)]]] :
         ps \in { Physics("Capsules", R(500), R(30)),
                  Physics("Powder", Zero, R(250)),
                  Physics("Tablets", Rat(251, 2), R(240)),
                  Physics("Capsules", Zero, Zero) } }

(***************************************************************************)
(* State.                                                                  *)
(*   vendorName, product : the arguments of the call; product is the       *)
(*                         caller's value, which ApplyRules gets a pointer *)
(*                         to                                              *)
(*   analyzer            : the receiver (Rules, Supplements)               *)
(*   Registry            : the package-level rules.Registry                *)
(*   pc, idx             : position in the call, loop index                *)
(*   results             : the slice being built, the return value at done *)
(*   owner               : per element of results, the index of the        *)
(*                         variant whose iteration appended it             *)
(*   trace               : per finished iteration, the variant index, the  *)
(*                         outcome and the iteration's local variables     *)
(*   keep                : what ApplyRules returned                        *)
(***************************************************************************)
VARIABLES vendorName, product, analyzer, Registry, pc, idx, results, owner, trace, keep

(***************************************************************************)
(* State of the other entry points.                                        *)
(*   calls, report       : concurrent AnalyzeProduct calls, each with its  *)
(*                         own arguments and locals, and the caller's      *)
(*                         concatenation of their return values            *)
(*   gap                 : what AuditProduct returned                      *)
(*   triageArgs, review  : the arguments of one triageDirtyData call and   *)
(*                         the (needsReview, reviewReason) it returned     *)
(*   page, finalProducts : the locals of FetchShopifyProducts              *)
(*   requests            : the number of client.Do calls made so far       *)
(*   fetchResult         : what FetchShopifyProducts returned              *)
(*   refresh, fleet      : the arguments of scrapeAll (fleet: vendors)     *)
(*   disk                : the local JSON files, by vendor name            *)
(*   launched, wg, ch    : scrapeAll's loop index, WaitGroup counter and   *)
(*                         channel buffer                                  *)
(*   closed              : the number of close(ch) calls made              *)
(*   worker, closer      : the vendor goroutines and the closing goroutine *)
(*   received, all       : the vendor names of the results the collecting  *)
(*                         loop has received, and the products it kept     *)
(*   fetched             : the vendors scraper.FetchProducts was called on *)
(*   classifyArgs        : the product, variant, override and masses that  *)
(*                         one iteration classifies                        *)
(*   classified, bonus   : what classifyType and then                      *)
(*                         bioavailabilityMultiplier returned for them     *)
(***************************************************************************)
VARIABLES calls, report, gap, triageArgs, review

VARIABLES page, finalProducts, requests, fetchResult

VARIABLES refresh, fleet, disk, launched, wg, ch, closed, worker, closer, received, all, fetched

VARIABLES classifyArgs, classified, bonus

concurrentVars == <<calls, report>>

auditVars == <<gap, triageArgs, review>>

shopifyVars == <<page, finalProducts, requests, fetchResult>>

scrapeVars == <<refresh, fleet, disk, launched, wg, ch, closed, worker, closer, received, all, fetched>>

typeVars == <<classifyArgs, classified, bonus>>

others == <<concurrentVars, auditVars, shopifyVars, scrapeVars, typeVars>>

vars == <<vendorName, product, analyzer, Registry, pc, idx, results, owner, trace, keep, others>>

NotCalled == [called |-> FALSE]

IdleConcurrent == calls = << >> /\ report = << >>

IdleAudit == gap = NotCalled /\ triageArgs = NotCalled /\ review = NotCalled

IdleShopify == page = 0 /\ finalProducts = << >> /\ requests = 0 /\ fetchResult = NotCalled

IdleScrape ==
    /\ refresh = FALSE /\ fleet = << >> /\ disk = << >> /\ launched = 0 /\ wg = 0
    /\ ch = << >> /\ closed = 0 /\ worker = << >> /\ closer = "idle"
    /\ received = << >> /\ all = << >> /\ fetched = {}

IdleType == classifyArgs = NotCalled /\ classified = NotCalled /\ bonus = NotCalled

IdleLoop == idx = 0 /\ results = << >> /\ owner = << >> /\ trace = << >> /\ keep = "none"

NoRegistry == [isNil |-> TRUE, m |-> [v \in {} |-> << >>]]

Init ==
    /\ vendorName \in Vendors
    /\ product \in Products
    /\ analyzer \in Analyzers
    /\ Registry = NoRegistry
    /\ pc = "call"
    /\ idx = 0
    /\ results = << >>
    /\ owner = << >>
    /\ trace = << >>
    /\ keep = "none"
    /\ IdleConcurrent /\ IdleAudit /\ IdleShopify /\ IdleScrape /\ IdleType

cur ==
    analyzeWith(vendorName, product, product.Variants[idx],
                vendorConfig(analyzer, vendorName, product.Handle))

ReturnNil ==
    /\ pc = "call"
    /\ ~passesGate(analyzer, product)
    /\ pc' = "done"
    /\ UNCHANGED <<vendorName, product, analyzer, Registry, idx, results, owner, trace, keep, others>>

EnterLoop ==
    /\ pc = "call"
    /\ passesGate(analyzer, product)
    /\ pc' = "loop"
    /\ idx' = 1
    /\ UNCHANGED <<vendorName, product, analyzer, Registry, results, owner, trace, keep, others>>

Record(r) == [vi |-> idx, outcome |-> r.outcome, locals |-> r.locals]

Skip(r) ==
    /\ r.outcome # "emit"
    /\ trace' = Append(trace, Record(r))

SkipVariant ==
    /\ pc = "loop"
    /\ idx <= Len(product.Variants)
    /\ Skip(cur)
    /\ idx' = idx + 1
    /\ UNCHANGED <<vendorName, product, analyzer, Registry, pc, results, owner, keep, others>>

Emit(r) ==
    /\ r.outcome = "emit"
    /\ results' = results \o r.recs
    /\ owner' = owner \o [j \in 1..Len(r.recs) |-> idx]
    /\ trace' = Append(trace, Record(r))

EmitVariant ==
    /\ pc = "loop"
    /\ idx <= Len(product.Variants)
    /\ Emit(cur)
    /\ idx' = idx + 1
    /\ UNCHANGED <<vendorName, product, analyzer, Registry, pc, keep, others>>

ReturnResults ==
    /\ pc = "loop"
    /\ idx > Len(product.Variants)
    /\ pc' = "done"
    /\ UNCHANGED <<vendorName, product, analyzer, Registry, idx, results, owner, trace, keep, others>>

Next ==
    \/ ReturnNil
    \/ EnterLoop
    \/ SkipVariant
    \/ EmitVariant
    \/ ReturnResults

Spec == Init /\ [][Next]_vars

(***************************************************************************)
(* The vendor-rule check on its own: one call of ApplyRules.               *)
(***************************************************************************)
InitRules ==
    /\ vendorName \in RuleVendors
    /\ product \in RuleProducts
    /\ analyzer = [Rules |-> NoRegistry, Supplements |-> Supplements]
    /\ Registry \in RuleRegistries
    /\ pc = "rules"
    /\ idx = 0
    /\ results = << >>
    /\ owner = << >>
    /\ trace = << >>
    /\ keep = "none"
    /\ IdleConcurrent /\ IdleAudit /\ IdleShopify /\ IdleScrape /\ IdleType

Returned(r) ==
    /\ keep' = r.keep
    /\ product' = r.p

CallApplyRules ==
    /\ pc = "rules"
    /\ Returned(ApplyRules(Registry, vendorName, product))
    /\ pc' = "ruled"
    /\ UNCHANGED <<vendorName, analyzer, Registry, idx, results, owner, trace, others>>

NextRules == CallApplyRules

SpecRules == InitRules /\ [][NextRules]_vars

(***************************************************************************)
(* Properties of AnalyzeProduct.  Record k of results was appended by the  *)
(* iteration over variant owner[k]; trace[i] holds the locals of the       *)
(* iteration over variant i.                                               *)
(***************************************************************************)
Records == 1..Len(results)

variantOf(k) == product.Variants[owner[k]]

localsOf(k) == trace[owner[k]].locals

config == vendorConfig(analyzer, vendorName, product.Handle)

\* C1: every Analysis record in the results of AnalyzeProduct, one-time or
\* subscription, fallback or not, has activeGrams > 0.
ActiveGramsPositive ==
    \A k \in Records : results[k].ActiveGrams.n > 0 /\ results[k].ActiveGrams.d > 0

\* a subscription record whose activeGrams was replaced by the pure-powder fallback
ActiveGramsPositiveWitness ==
    \E k \in Records : results[k].IsSubscription /\ localsOf(k).fallback

\* the conditions of the two override tiers, read from the configuration
variantOverrideApplies(v) ==
    config.hasOverride /\ RPos(MapGet(config.spec.VariantOverrides, v.Title))

productOverrideApplies == config.hasOverride /\ RPos(config.spec.ForceActiveGrams)

\* C2: when the mass of a variant comes from an override (variantOverrides of
\* its title > 0, or forceActiveGrams > 0), every record of that variant has
\* needsReview = false and an empty reviewReason; needsReview = true implies
\* the mass came from the regex path.
OverridesNeverFlagged ==
    \A k \in Records :
        /\ (variantOverrideApplies(variantOf(k)) \/ productOverrideApplies)
              => ~results[k].NeedsReview /\ results[k].ReviewReason = ""
        /\ results[k].NeedsReview => ~localsOf(k).usedOverride

\* an override-sourced subscription record of a product whose text holds a dirty keyword
OverridesNeverFlaggedWitness ==
    \E k \in Records :
        /\ variantOverrideApplies(variantOf(k)) \/ productOverrideApplies
        /\ results[k].IsSubscription
        /\ containsAny(ToLower(results[k].Name \o " " \o product.Handle \o " " \o product.Title),
                       dirtyKeywords)

\* the analyzer with the variantGrossOverrides of the product's override entry replaced
withGrossOverrides(a, vendor, handle, g) ==
    [a EXCEPT !.Rules.m[vendor].Overrides[handle].VariantGrossOverrides = g]

otherRun(g) ==
    AnalyzeProduct(withGrossOverrides(analyzer, vendorName, product.Handle, g),
                   vendorName, product)

costOf(r) == <<r.ActiveGrams, r.CostPerGram, r.EffectiveCost>>

sameCost(other) ==
    /\ Len(other) = Len(results)
    /\ \A k \in Records : costOf(other[k]) = costOf(results[k])

\* C3: gross grams are never used in cost math; two runs of AnalyzeProduct
\* that differ only in the variantGrossOverrides entries return records with
\* identical activeGrams, costPerGram and effectiveCost.
GrossNeverInCostMath ==
    pc = "done" /\ config.hasOverride => \A g \in GrossMaps : sameCost(otherRun(g))

\* the pack multiplier as C4 words it: variant title, else broad search, else 1
packOf(inTitle, inBroad) ==
    IF inTitle.ok THEN inTitle.v ELSE IF inBroad.ok THEN inBroad.v ELSE One

packMultiplierOf(v) ==
    packOf(extractFloat(rePack, v.Title), extractFloat(rePack, broadSearchOf(product, v)))

baseMassOf(k) == RAdd(localsOf(k).capsuleMass, localsOf(k).powderMass)

\* C4: the pack multiplier is the first positive pack number of the variant
\* title, else of the broad search string, else 1, and every emitted Analysis
\* has activeGrams = baseMass x packMultiplier, whichever tier gave the mass.
ActiveGramsIsBaseTimesPack ==
    \A k \in Records :
        /\ localsOf(k).packMultiplier = packMultiplierOf(variantOf(k))
        /\ results[k].ActiveGrams = RMul(baseMassOf(k), packMultiplierOf(variantOf(k)))

\* C5: the base mass of a variant is variantOverrides[variant title] when the
\* handle has an override and that value is > 0; otherwise forceActiveGrams
\* when > 0; otherwise it comes from the regex pipeline.  Under either
\* override the base mass is the configured value whatever the texts hold,
\* and the variant override wins when both are present.
MassPriorityChain ==
    \A k \in Records :
        IF variantOverrideApplies(variantOf(k))
        THEN /\ localsOf(k).usedOverride
             /\ baseMassOf(k) = MapGet(config.spec.VariantOverrides, variantOf(k).Title)
        ELSE IF productOverrideApplies
        THEN /\ localsOf(k).usedOverride
             /\ baseMassOf(k) = config.spec.ForceActiveGrams
        ELSE ~localsOf(k).usedOverride

\* a record of a variant with both overrides present and different
MassPriorityChainWitness ==
    \E k \in Records :
        /\ variantOverrideApplies(variantOf(k))
        /\ productOverrideApplies
        /\ config.spec.ForceActiveGrams
              # MapGet(config.spec.VariantOverrides, variantOf(k).Title)

\* a < b and a <= b over the rationals, on the common denominator
Scaled(a, b) == a.n * (b.d \div GCD(a.d, b.d))

Below(a, b) == Scaled(a, b) < Scaled(b, a)

AtMost(a, b) == Scaled(a, b) <= Scaled(b, a)

MultiplierValues ==
    \A k \in Records :
        /\ results[k].Multiplier \in {R(1), Rat(11, 10), Rat(3, 2)}
        /\ results[k].MultiplierLabel = "" <=> results[k].Multiplier = R(1)

\* a record with the tablet bonus, multiplier 1.1
MultiplierValuesWitness ==
    \E k \in Records :
        results[k].MultiplierLabel = "Tablet Bonus" /\ results[k].Multiplier = Rat(11, 10)

discount == config.cfg.GlobalSubscriptionDiscount

suffix == " (Subscribe & Save)"

\* record k is a subscription record and record k - 1 the one-time record of its variant
pairedAt(k) ==
    /\ k > 1
    /\ owner[k - 1] = owner[k]
    /\ ~results[k - 1].IsSubscription
    /\ results[k].IsSubscription

\* C8 as stated: with a positive discount the subscription record of a
\* variant equals its one-time record in every field except price, the name
\* suffix and isSubscription.
SubscriptionDiffersInThreeFields ==
    RPos(discount) =>
        \A k \in Records : results[k].IsSubscription =>
            /\ pairedAt(k)
            /\ results[k] = [results[k - 1] EXCEPT !.Price = results[k].Price,
                                                   !.Name = @ \o suffix,
                                                   !.IsSubscription = TRUE]

\* C8 amended: with a positive discount the subscription record of a variant
\* equals its one-time record in every field except price, costPerGram and
\* effectiveCost (both follow the discounted price), the name suffix and
\* isSubscription.
SubscriptionDiffersInPriceFields ==
    RPos(discount) =>
        \A k \in Records : results[k].IsSubscription =>
            /\ pairedAt(k)
            /\ results[k] = [results[k - 1] EXCEPT !.Price = results[k].Price,
                                                   !.CostPerGram = results[k].CostPerGram,
                                                   !.EffectiveCost = results[k].EffectiveCost,
                                                   !.Name = @ \o suffix,
                                                   !.IsSubscription = TRUE]

\* a subscription record of a variant that is flagged for review and has a bonus multiplier
SubscriptionDiffersInPriceFieldsWitness ==
    /\ RPos(discount)
    /\ \E k \in Records :
          /\ results[k].IsSubscription
          /\ results[k].NeedsReview
          /\ results[k].MultiplierLabel # ""

emitted == {i \in 1..Len(trace) : trace[i].outcome = "emit"}

recordsOf(i) == {k \in Records : owner[k] = i}

\* records j and j + 1 are the one-time and subscription records of one variant
subscriptionPair(j) ==
    /\ ~results[j].IsSubscription
    /\ results[j + 1].IsSubscription
    /\ results[j + 1].Price = RMul(results[j].Price, RSub(R(1), discount))
    /\ results[j + 1].ActiveGrams = results[j].ActiveGrams
    /\ results[j + 1].GrossGrams = results[j].GrossGrams
    /\ results[j + 1].Type = results[j].Type
    /\ results[j + 1].Multiplier = results[j].Multiplier
    /\ results[j + 1].NeedsReview = results[j].NeedsReview
    /\ results[j + 1].ReviewReason = results[j].ReviewReason

\* C9: with discount d > 0 every qualifying variant contributes exactly two
\* consecutive records, the one-time record and right after it the
\* subscription record with price x (1 - d) and the same activeGrams,
\* grossGrams, type, multiplier, needsReview and reviewReason; with d = 0 or
\* no vendor configuration it contributes exactly one record and no record
\* is a subscription.  Variants that do not qualify contribute nothing.
SubscriptionPairs ==
    /\ \A k \in Records : owner[k] \in emitted
    /\ \A k \in Records : k > 1 => owner[k - 1] <= owner[k]
    /\ IF RPos(discount)
       THEN \A i \in emitted :
               \E j \in Records : recordsOf(i) = {j, j + 1} /\ subscriptionPair(j)
       ELSE /\ \A i \in emitted : Cardinality(recordsOf(i)) = 1
            /\ \A k \in Records : ~results[k].IsSubscription

\* a finished run over two qualifying variants with a discount, four records
SubscriptionPairsWitness ==
    /\ pc = "done"
    /\ RPos(discount)
    /\ Cardinality(emitted) = 2
    /\ Len(results) = 4

\* C10 as stated: the vendor-rule check has no side effects; after
\* ApplyRules returns, allowed or rejected, override entry or not, every
\* field of the product is as it was before the call.
ApplyRulesLeavesProduct == [][pc = "rules" => product' = product]_vars

\* the variant title contains a variantBlocklist entry when letter case is ignored
blockedIgnoringCase(v) ==
    \E e \in 1..Len(config.cfg.VariantBlocklist) :
        Contains(ToLower(v.Title), ToLower(config.cfg.VariantBlocklist[e]))

\* C11: a variant whose title contains a variantBlocklist entry of its
\* vendor, compared case-insensitively whatever the letter case of the entry
\* and of the title, is skipped: no record of the results belongs to it.
BlockedVariantYieldsNoRecord ==
    \A k \in Records : ~blockedIgnoringCase(variantOf(k))

\* the product with variant i as its only variant
alone(i) == [product EXCEPT !.Variants = <<product.Variants[i]>>]

\* the records of the qualifying variants up to variant i, each analysed alone
RECURSIVE recordsAlone(_)
recordsAlone(i) ==
    IF i = 0 THEN << >>
    ELSE recordsAlone(i - 1) \o AnalyzeProduct(analyzer, vendorName, alone(i))

\* what the code checks per variant, read from the inputs
priceOf(i) == ParseFloat(product.Variants[i].Price)

massResolved(i) == RPos(RMul(RAdd(trace[i].locals.capsuleMass, trace[i].locals.powderMass), trace[i].locals.packMultiplier))

\* C12: AnalyzeProduct emits records for exactly the variants that are
\* available, not variant-blocked (no variantBlocklist entry in the title,
\* letter case ignored), have a parseable price > 0 and a resolved
\* active mass > 0, in the order of the variant list; excluding a variant
\* never changes the records of the others (the results are the records of
\* each variant analysed alone, concatenated); a product with no variants,
\* failing the supplement gate or with no qualifying variant yields nothing.
ExactlyQualifyingVariants ==
    /\ \A k \in Records : k > 1 => owner[k - 1] <= owner[k]
    /\ \A i \in 1..Len(trace) :
          (trace[i].outcome = "emit")
             <=> /\ product.Variants[i].Available
                 /\ ~blockedIgnoringCase(product.Variants[i])
                 /\ ~priceOf(i).err /\ RPos(priceOf(i).v)
                 /\ massResolved(i)
    /\ \A i \in 1..Len(trace) : (recordsOf(i) # {}) <=> trace[i].outcome = "emit"
    /\ pc = "done" =>
          /\ results = recordsAlone(Len(product.Variants))
          /\ ~passesGate(analyzer, product) => results = << >>
          /\ passesGate(analyzer, product) => Len(trace) = Len(product.Variants)
          /\ emitted = {} => results = << >>

(***************************************************************************)
(* Concurrent calls of AnalyzeProduct on one Analyzer.  Each call has its  *)
(* own arguments, loop position and results slice; the receiver is shared  *)
(* and only read.  The caller appends each return value to report as the   *)
(* calls finish.                                                           *)
(***************************************************************************)
Callers == {1, 2}

ConcurrentVariants == {w \in VariantPool : w.Title \in {"60 Capsules", "1.5kg"}}

\* the product title of each call
ConcurrentTitles == <<"NMN 500mg 60 Capsules", "Creatine Monohydrate 500 Grams">>

ConcurrentProducts(c) ==
    {q \in Products :
        /\ q.Title = ConcurrentTitles[c]
        /\ q.BodyHTML = ""
        /\ q.Handle = "best-seller"
        /\ \A i \in 1..Len(q.Variants) : q.Variants[i] \in ConcurrentVariants}

ConcurrentAnalyzers ==
    {a \in Analyzers :
        a.Rules.isNil \/ \E v \in DOMAIN a.Rules.m :
                            a.Rules.m[v].GlobalSubscriptionDiscount = Rat(1, 10)}

Call(vendor, p) == [vendorName |-> vendor, product |-> p, pc |-> "call", idx |-> 0, results |-> << >>]

InitConcurrent ==
    /\ analyzer \in ConcurrentAnalyzers
    /\ calls \in [Callers -> {Call(v, q) : v \in Vendors, q \in UNION {ConcurrentProducts(c) : c \in Callers}}]
    /\ \A c \in Callers : calls[c].product \in ConcurrentProducts(c)
    /\ report = << >>
    /\ vendorName = ""
    /\ product = << >>
    /\ Registry = NoRegistry
    /\ pc = "concurrent"
    /\ IdleLoop /\ IdleAudit /\ IdleShopify /\ IdleScrape /\ IdleType

\* variant of ownResults: every call appends to the slice of the first call
sharedResults(cs, c) == cs[1].results

\* the results slice call c appends to: its own local variable
ownResults(cs, c) == cs[c].results

iteration(call) ==
    analyzeWith(call.vendorName, call.product, call.product.Variants[call.idx],
                vendorConfig(analyzer, call.vendorName, call.product.Handle))

notConcurrent == <<vendorName, product, analyzer, Registry, pc, idx, results, owner, trace, keep, auditVars, shopifyVars, scrapeVars, typeVars>>

CallReturnNil(c) ==
    /\ calls[c].pc = "call"
    /\ ~passesGate(analyzer, calls[c].product)
    /\ calls' = [calls EXCEPT ![c].pc = "returned"]
    /\ UNCHANGED report
    /\ UNCHANGED notConcurrent

CallEnterLoop(c) ==
    /\ calls[c].pc = "call"
    /\ passesGate(analyzer, calls[c].product)
    /\ calls' = [calls EXCEPT ![c].pc = "loop", ![c].idx = 1]
    /\ UNCHANGED report
    /\ UNCHANGED notConcurrent

CallVariant(c) ==
    /\ calls[c].pc = "loop"
    /\ calls[c].idx <= Len(calls[c].product.Variants)
    /\ calls' = [calls EXCEPT ![c].results = ownResults(calls, c) \o iteration(calls[c]).recs,
                              ![c].idx = @ + 1]
    /\ UNCHANGED report
    /\ UNCHANGED notConcurrent

CallReturnResults(c) ==
    /\ calls[c].pc = "loop"
    /\ calls[c].idx > Len(calls[c].product.Variants)
    /\ calls' = [calls EXCEPT ![c].pc = "returned"]
    /\ UNCHANGED report
    /\ UNCHANGED notConcurrent

Concatenate(c) ==
    /\ calls[c].pc = "returned"
    /\ report' = report \o calls[c].results
    /\ calls' = [calls EXCEPT ![c].pc = "collected"]
    /\ UNCHANGED notConcurrent

NextConcurrent ==
    \/ \E c \in Callers : CallReturnNil(c)
    \/ \E c \in Callers : CallEnterLoop(c)
    \/ \E c \in Callers : CallVariant(c)
    \/ \E c \in Callers : CallReturnResults(c)
    \/ \E c \in Callers : Concatenate(c)

SpecConcurrent == InitConcurrent /\ [][NextConcurrent]_vars

\* the records of call c analysed alone
aloneOf(c) == AnalyzeProduct(analyzer, calls[c].vendorName, calls[c].product)

Occurrences(q, x) == Cardinality({i \in 1..Len(q) : q[i] = x})

sameMultiset(q1, q2) ==
    /\ Len(q1) = Len(q2)
    /\ \A i \in 1..Len(q1) : Occurrences(q1, q1[i]) = Occurrences(q2, q1[i])

\* C13: AnalyzeProduct is a deterministic function of (vendor name, product,
\* vendor configuration, supplement list) sharing no state between calls:
\* in every interleaving of concurrent calls each call returns the records
\* of its product analysed alone, and the concatenation of the return
\* values, in whatever order the calls finish, is the same multiset of
\* records.
CallsAreIsolated ==
    /\ \A c \in Callers :
          calls[c].pc \in {"returned", "collected"} => calls[c].results = aloneOf(c)
    /\ (\A c \in Callers : calls[c].pc = "collected")
          => sameMultiset(report, aloneOf(1) \o aloneOf(2))

\* both calls have returned records, the second call finished first, and
\* the iterations of the two calls were interleaved
CallsAreIsolatedWitness ==
    /\ calls[1].pc = "collected" /\ calls[2].pc = "collected"
    /\ aloneOf(1) # << >> /\ aloneOf(2) # << >>
    /\ aloneOf(1) # aloneOf(2)
    /\ report = aloneOf(2) \o aloneOf(1)

(***************************************************************************)
(* AuditProduct, the gap detector.  A nil *AuditResult is the record Nil.  *)
(***************************************************************************)
rePriceFloat == [units |-> {""}, frac |-> TRUE, wb |-> FALSE, serving |-> FALSE]

Nil == [isNil |-> TRUE]

AuditResult(vendor, p, bestPrice, variantCt, mg, count, grams, kg, missing) ==
    [isNil |-> FALSE, Vendor |-> vendor, Title |-> p.Title, Handle |-> p.Handle,
     BestPrice |-> bestPrice, VariantCt |-> variantCt,
     MgFound |-> mg.ok, MgValue |-> mg.v, CountFound |-> count.ok, CountValue |-> count.v,
     GramsFound |-> grams.ok, GramsValue |-> grams.v, KgFound |-> kg.ok, KgValue |-> kg.v,
     Missing |-> missing]

\* the prices of the available variants whose price holds a positive number
Priced(price, rest) == IF price.ok THEN <<price.v>> \o rest ELSE rest

RECURSIVE availablePrices(_, _)
availablePrices(vs, i) ==
    IF i > Len(vs) THEN << >>
    ELSE IF ~vs[i].Available THEN availablePrices(vs, i + 1)
    ELSE Priced(extractFloat(rePriceFloat, vs[i].Price), availablePrices(vs, i + 1))

Lower(a, b) == IF RLt(a, b) THEN a ELSE b

\* result.BestPrice after the loop over a non-empty list of prices
RECURSIVE bestPrice(_)
bestPrice(prices) ==
    IF Len(prices) = 1 THEN prices[1] ELSE Lower(prices[1], bestPrice(Tail(prices)))

\* " " + v.Title for every variant from variant i on
RECURSIVE variantTitles(_, _)
variantTitles(vs, i) ==
    IF i > Len(vs) THEN "" ELSE " " \o vs[i].Title \o variantTitles(vs, i + 1)

auditBroadSearch(p) ==
    p.Title \o " " \o p.Context \o " " \o ReplaceAll(p.Handle, "-", " ") \o " " \o p.BodyHTML
        \o variantTitles(p.Variants, 1)

auditCleanSearch(p) == p.Title \o variantTitles(p.Variants, 1)

\* variant of missingData: partially found data names nothing to supply
missingDataSilent(mg, count, grams, kg) ==
    IF ~(grams.ok \/ kg.ok) /\ ~(mg.ok /\ count.ok)
    THEN (IF ~mg.ok THEN <<"mg per serving (forceServingMg)">> ELSE << >>)
         \o (IF ~count.ok THEN <<"capsule/tablet count">> ELSE << >>)
         \o (IF ~grams.ok /\ ~kg.ok THEN <<"active grams (forceActiveGrams)">> ELSE << >>)
    ELSE << >>

missingData(mg, count, grams, kg) ==
    IF ~(grams.ok \/ kg.ok) /\ ~(mg.ok /\ count.ok)
    THEN (IF ~mg.ok THEN <<"mg per serving (forceServingMg)">> ELSE << >>)
         \o (IF ~count.ok THEN <<"capsule/tablet count">> ELSE << >>)
         \o (IF ~grams.ok /\ ~kg.ok THEN <<"active grams (forceActiveGrams)">> ELSE << >>)
    ELSE <<"data was partially found but activeGrams still computed to 0 (check overrides)">>

probed(vendor, p, prices, mg, count, grams, kg) ==
    AuditResult(vendor, p, bestPrice(prices), Len(prices), mg, count, grams, kg,
                missingData(mg, count, grams, kg))

probe(vendor, p, prices, variantSearch, cleanSearch, broadSearch) ==
    probed(vendor, p, prices,
           extractFloat(reMg, broadSearch),
           extractFloatFrom(reCount, <<variantSearch, cleanSearch, broadSearch>>),
           extractFloatFrom(reGrams, <<cleanSearch, broadSearch>>),
           extractFloat(reKg, cleanSearch))

diagnose(vendor, p, prices) ==
    IF Len(prices) = 0
    THEN AuditResult(vendor, p, Zero, 0, NotFound, NotFound, NotFound, NotFound,
                     <<"no available variants with a valid price">>)
    ELSE probe(vendor, p, prices, variantTitles(p.Variants, 1), auditCleanSearch(p),
               auditBroadSearch(p))

\* the return value of a.AuditProduct(vendor, p)
AuditProduct(a, vendor, p) ==
    IF Len(p.Variants) = 0
    THEN AuditResult(vendor, p, Zero, 0, NotFound, NotFound, NotFound, NotFound,
                     <<"no variants at all">>)
    ELSE IF ~matchesSupplement(a, ToLower(p.Title \o " " \o p.Context \o " " \o p.Handle))
    THEN Nil
    ELSE IF /\ vendorConfig(a, vendor, p.Handle).hasOverride
            /\ RPos(vendorConfig(a, vendor, p.Handle).spec.ForceActiveGrams)
            /\ AnalyzeProduct(a, vendor, p) # << >>
    THEN Nil
    ELSE IF AnalyzeProduct(a, vendor, p) # << >> THEN Nil
    ELSE diagnose(vendor, p, availablePrices(p.Variants, 1))

AuditProducts == {q \in Products : q.Handle = "best-seller"}

InitAudit ==
    /\ vendorName \in Vendors
    /\ product \in AuditProducts
    /\ analyzer \in Analyzers
    /\ Registry = NoRegistry
    /\ pc = "audit"
    /\ gap = NotCalled /\ triageArgs = NotCalled /\ review = NotCalled
    /\ IdleLoop /\ IdleConcurrent /\ IdleShopify /\ IdleScrape /\ IdleType

CallAuditProduct ==
    /\ pc = "audit"
    /\ gap' = AuditProduct(analyzer, vendorName, product)
    /\ pc' = "audited"
    /\ UNCHANGED <<vendorName, product, analyzer, Registry, idx, results, owner, trace, keep>>
    /\ UNCHANGED <<triageArgs, review, concurrentVars, shopifyVars, scrapeVars, typeVars>>

NextAudit == CallAuditProduct

SpecAudit == InitAudit /\ [][NextAudit]_vars

\* the product matches a tracked supplement keyword
tracked == matchesSupplement(analyzer, ToLower(product.Title \o " " \o product.Context \o " " \o product.Handle))

\* C14: AuditProduct returns a gap result exactly for the products that pass
\* the supplement-keyword gate and for which AnalyzeProduct produces no
\* Analysis; for a product matching no tracked keyword, or with at least one
\* Analysis, it returns nil.
GapExactlyForTrackedUnanalysable ==
    pc = "audited" =>
        (~gap.isNil <=> tracked /\ AnalyzeProduct(analyzer, vendorName, product) = << >>)

(***************************************************************************)
(* The path of one product through main: the vendor-rule check, then, for  *)
(* a product that is kept, AnalyzeProduct.                                 *)
(***************************************************************************)
PipelineProducts ==
    {q \in Products :
        /\ q.Handle = "best-seller"
        /\ q.BodyHTML = ""
        /\ q.Title \in {"NMN 500mg 60 Capsules", "Watermelon Creatine Blend 500 GMS",
                        "Nutricost Liposomal Gel"}}

PipelineRegistries ==
    {r \in RuleRegistries :
        r.isNil \/ \E v \in DOMAIN r.m :
                      r.m[v].Overrides["best-seller"] = Physics("Capsules", R(500), R(30))}

PipelineAnalyzers ==
    {a \in Analyzers :
        \/ a.Rules.isNil
        \/ "Do Not Age" \in DOMAIN a.Rules.m
        \/ \E v \in DOMAIN a.Rules.m : a.Rules.m[v].VariantBlocklist = <<"sample">>}

InitPipeline ==
    /\ vendorName \in RuleVendors
    /\ product \in PipelineProducts
    /\ analyzer \in PipelineAnalyzers
    /\ Registry \in PipelineRegistries
    /\ pc = "rules"
    /\ IdleLoop /\ IdleConcurrent /\ IdleAudit /\ IdleShopify /\ IdleScrape /\ IdleType

Kept ==
    /\ pc = "ruled"
    /\ keep = TRUE
    /\ pc' = "call"
    /\ UNCHANGED <<vendorName, product, analyzer, Registry, idx, results, owner, trace, keep, others>>

Dropped ==
    /\ pc = "ruled"
    /\ keep = FALSE
    /\ pc' = "dropped"
    /\ UNCHANGED <<vendorName, product, analyzer, Registry, idx, results, owner, trace, keep, others>>

NextPipeline ==
    \/ CallApplyRules
    \/ Kept
    \/ Dropped
    \/ ReturnNil
    \/ EnterLoop
    \/ SkipVariant
    \/ EmitVariant
    \/ ReturnResults

SpecPipeline == InitPipeline /\ [][NextPipeline]_vars

\* the registry is nil or does not hold the vendor
absent(reg, vendor) == reg.isNil \/ vendor \notin DOMAIN reg.m

\* the analyzer with a registry that holds an empty configuration for the vendor
withEmptyConfig(a, vendor) ==
    [a EXCEPT !.Rules = [isNil |-> FALSE, m |-> [v \in {vendor} |-> ZeroConfig]]]

\* C15: absent configuration is fully permissive.  With a nil registry or a
\* vendor missing from it the vendor-rule check allows every product, and
\* AnalyzeProduct behaves exactly as with an empty vendor configuration: no
\* variant is blocked, no override is applied and no subscription record is
\* emitted.
AbsentConfigIsPermissive ==
    /\ pc \notin {"rules"} /\ absent(Registry, vendorName) => keep = TRUE
    /\ absent(analyzer.Rules, vendorName) =>
          /\ \A i \in 1..Len(trace) : trace[i].outcome # "blocked"
          /\ \A k \in Records : ~results[k].IsSubscription /\ ~localsOf(k).usedOverride
          /\ pc = "done" =>
                results = AnalyzeProduct(withEmptyConfig(analyzer, vendorName), vendorName, product)

\* a finished run for a vendor missing from both registries, while the
\* registry of the analyzer blocks the variant title for another vendor
AbsentConfigIsPermissiveWitness ==
    /\ pc = "done"
    /\ ~Registry.isNil /\ vendorName \notin DOMAIN Registry.m
    /\ ~analyzer.Rules.isNil /\ vendorName \notin DOMAIN analyzer.Rules.m
    /\ results # << >>
    /\ \E k \in Records : Contains(ToLower(variantOf(k).Title), "caps")

\* the vendor has a configuration and the lowercased title, handle and
\* context of q contain the lowercased form of a blocklist entry
rejects(q) ==
    /\ ~Registry.isNil
    /\ vendorName \in DOMAIN Registry.m
    /\ \E e \in 1..Len(Registry.m[vendorName].Blocklist) :
          Contains(ToLower(q.Title) \o " " \o ToLower(q.Handle) \o " " \o ToLower(q.Context),
                   ToLower(Registry.m[vendorName].Blocklist[e]))

\* the decision on the product with another description and other variants
decisionOn(b, vs) ==
    ApplyRules(Registry, vendorName, [product EXCEPT !.BodyHTML = b, !.Variants = vs]).keep

\* C16: the vendor-rule check rejects a product if and only if the vendor
\* has a configuration and the lowercased concatenation of title, handle and
\* context contains the lowercased form of at least one blocklist entry; the
\* description and the variant titles never influence the decision.
RejectsExactlyBlocklisted ==
    [][pc = "rules" =>
          /\ keep' = ~rejects(product)
          /\ \A b \in {"", "<p>Watermelon Gummies</p>"} :
                \A vs \in {<< >>, <<Variant("Gummies Watermelon", "45", TRUE)>>} :
                    decisionOn(b, vs) = keep']_vars

\* a product rejected through its handle alone by an entry written with a capital
RejectsExactlyBlocklistedWitness ==
    /\ pc = "ruled"
    /\ keep = FALSE
    /\ product.Handle = "lipo-gummies"
    /\ ~Contains(ToLower(product.Title \o " " \o product.Context), "watermelon")
    /\ Len(product.Variants) = 1

(***************************************************************************)
(* The storefront behind a vendor URL, as FetchShopifyProducts sees it.    *)
(* The URL field of a vendor stands for the storefront it points to:       *)
(*   "pages"   : pages 1..n hold size products each, later pages are empty *)
(*   "endless" : every page holds size products                            *)
(*   "fails"   : as "pages", but the request for page n fails              *)
(*   "html"    : as "pages", but the body of page n is not JSON            *)
(***************************************************************************)
Front(kind, n, size) == [kind |-> kind, n |-> n, size |-> size]

Item(n, j) ==
    [ID |-> Itoa(10 * n + j), Title |-> "NMN 500mg 60 Capsules", Context |-> "",
     Handle |-> IF j = 1 THEN "best-seller" ELSE "lipo-gummies",
     BodyHTML |-> "", ImageURL |-> "", Variants |-> << >>]

Listing(n, size) == [j \in 1..size |-> Item(n, j)]

\* what client.Do and json.Unmarshal give for page n of the storefront
Respond(front, n) ==
    IF front.kind = "fails" /\ n = front.n
    THEN [err |-> TRUE, json |-> FALSE, Products |-> << >>]
    ELSE IF front.kind = "html" /\ n = front.n
    THEN [err |-> FALSE, json |-> FALSE, Products |-> << >>]
    ELSE IF front.kind = "endless" \/ n <= front.n
    THEN [err |-> FALSE, json |-> TRUE, Products |-> Listing(n, front.size)]
    ELSE [err |-> FALSE, json |-> TRUE, Products |-> << >>]

\* the loop of FetchShopifyProducts ends at this response
lastPage(resp) == ~resp.json \/ Len(resp.Products) = 0

Result(name, products, err) == [VendorName |-> name, Products |-> products, Err |-> err]

(***************************************************************************)
(* scrapeAll: one goroutine per vendor runs scrapeOrLoad and sends its     *)
(* result on ch, a closing goroutine waits for them and closes ch, and the *)
(* caller ranges over ch.                                                  *)
(***************************************************************************)
NumVendors == 2

FanoutPageCap == 2

\* the vendors of config.GetVendors the model draws from, in their order there
FleetVendors ==
    << [Name |-> "ProHealth", URL |-> Front("fails", 1, 1), Cloudflare |-> FALSE],
       [Name |-> "Renue By Science", URL |-> Front("endless", 0, 1), Cloudflare |-> FALSE],
       [Name |-> "Nutricost", URL |-> Front("pages", 1, 2), Cloudflare |-> FALSE],
       [Name |-> "Wonderfeel", URL |-> Front("endless", 0, 1), Cloudflare |-> TRUE] >>

\* every choice of NumVendors of them, kept in that order
Fleets ==
    {[i \in 1..NumVendors |-> FleetVendors[pick[i]]] :
        pick \in {f \in [1..NumVendors -> 1..Len(FleetVendors)] :
                     \A i, j \in 1..NumVendors : i < j => f[i] < f[j]}}

\* the local JSON files: the named vendors have one, holding a single product
Disks(names) == {[n \in d |-> <<Item(1, 1)>>] : d \in SUBSET names}

ScrapeRegistry ==
    [isNil |-> FALSE,
     m |-> [v \in {"Nutricost"} |->
              [Blocklist |-> <<"Gummies", "Watermelon">>,
               Overrides |-> ForHandle("best-seller", Physics("Capsules", R(500), R(30)))]]]

Goroutine == [pc |-> "idle", page |-> 0, finalProducts |-> << >>, existed |-> FALSE,
              loaded |-> FALSE, result |-> NotCalled]

InitScrape ==
    /\ refresh \in BOOLEAN
    /\ fleet \in Fleets
    /\ disk \in Disks({fleet[i].Name : i \in 1..NumVendors})
    /\ Registry = ScrapeRegistry
    /\ pc = "launch"
    /\ launched = 0 /\ wg = 0 /\ ch = << >> /\ closed = 0
    /\ worker = [i \in 1..NumVendors |-> Goroutine]
    /\ closer = "idle"
    /\ received = << >> /\ all = << >> /\ fetched = {}
    /\ vendorName = "" /\ product = << >>
    /\ analyzer = [Rules |-> NoRegistry, Supplements |-> Supplements]
    /\ IdleLoop /\ IdleConcurrent /\ IdleAudit /\ IdleShopify /\ IdleType

notScrape == <<vendorName, product, analyzer, Registry, idx, results, owner, trace, keep, concurrentVars, auditVars, shopifyVars, typeVars>>

\* variant of shouldScrape: the refresh flag overrides the Cloudflare mark
shouldScrapeOnRefresh(refreshFlag, exists, cloudflare) ==
    refreshFlag \/ (~exists /\ ~cloudflare)

\* the value of shouldScrape when scrapeOrLoad decides between network and file
shouldScrape(refreshFlag, exists, cloudflare) == (refreshFlag \/ ~exists) /\ ~cloudflare

LoadJSON(name) ==
    IF name \in DOMAIN disk THEN Result(name, disk[name], "")
    ELSE Result(name, << >>, "no such file")

SaveJSON(name, products) ==
    [n \in DOMAIN disk \cup {name} |-> IF n = name THEN products ELSE disk[n]]

\* for _, v := range vendors { wg.Add(1); go func(v) {...}(v) }
Launch ==
    /\ pc = "launch"
    /\ launched < Len(fleet)
    /\ launched' = launched + 1
    /\ wg' = wg + 1
    /\ worker' = [worker EXCEPT ![launched + 1].pc = "start"]
    /\ UNCHANGED <<pc, refresh, fleet, disk, ch, closed, closer, received, all, fetched>>
    /\ UNCHANGED notScrape

\* go func() { wg.Wait(); close(ch) }()
StartCloser ==
    /\ pc = "launch"
    /\ launched = Len(fleet)
    /\ closer' = "wait"
    /\ pc' = "range"
    /\ UNCHANGED <<refresh, fleet, disk, launched, wg, ch, closed, worker, received, all, fetched>>
    /\ UNCHANGED notScrape

\* scrapeOrLoad, shouldScrape false: the local file is loaded
Load(i) ==
    /\ worker[i].pc = "start"
    /\ ~shouldScrape(refresh, fleet[i].Name \in DOMAIN disk, fleet[i].Cloudflare)
    /\ worker' = [worker EXCEPT ![i].pc = "send",
                                ![i].existed = fleet[i].Name \in DOMAIN disk,
                                ![i].loaded = TRUE,
                                ![i].result = LoadJSON(fleet[i].Name)]
    /\ UNCHANGED <<pc, refresh, fleet, disk, launched, wg, ch, closed, closer, received, all, fetched>>
    /\ UNCHANGED notScrape

\* scrapeOrLoad, shouldScrape true: scraper.FetchProducts is called
Scrape(i) ==
    /\ worker[i].pc = "start"
    /\ shouldScrape(refresh, fleet[i].Name \in DOMAIN disk, fleet[i].Cloudflare)
    /\ fetched' = fetched \cup {fleet[i].Name}
    /\ worker' = [worker EXCEPT ![i].pc = "fetching",
                                ![i].existed = fleet[i].Name \in DOMAIN disk,
                                ![i].page = 1]
    /\ UNCHANGED <<pc, refresh, fleet, disk, launched, wg, ch, closed, closer, received, all>>
    /\ UNCHANGED notScrape

\* the request fails: scrapeOrLoad returns the wrapped error
FetchFails(i) ==
    /\ worker[i].pc = "fetching"
    /\ Respond(fleet[i].URL, worker[i].page).err
    /\ worker' = [worker EXCEPT ![i].pc = "send",
                                ![i].result = Result(fleet[i].Name, << >>, "scraping: failed fetching page")]
    /\ UNCHANGED <<pc, refresh, fleet, disk, launched, wg, ch, closed, closer, received, all, fetched>>
    /\ UNCHANGED notScrape

\* an empty or unreadable page ends the loop; the products are saved (a
\* failed save is only printed) and returned
FetchEnds(i) ==
    /\ worker[i].pc = "fetching"
    /\ ~Respond(fleet[i].URL, worker[i].page).err
    /\ lastPage(Respond(fleet[i].URL, worker[i].page))
    /\ \E saved \in BOOLEAN :
          disk' = IF saved THEN SaveJSON(fleet[i].Name, worker[i].finalProducts) ELSE disk
    /\ worker' = [worker EXCEPT ![i].pc = "send",
                                ![i].result = Result(fleet[i].Name, worker[i].finalProducts, "")]
    /\ UNCHANGED <<pc, refresh, fleet, launched, wg, ch, closed, closer, received, all, fetched>>
    /\ UNCHANGED notScrape

\* a page with products: they are appended and the next page is requested.
\* Page numbers are followed up to FanoutPageCap; a goroutine that is still
\* in the loop there stays in it.
FetchPage(i) ==
    /\ worker[i].pc = "fetching"
    /\ worker[i].page < FanoutPageCap
    /\ ~Respond(fleet[i].URL, worker[i].page).err
    /\ ~lastPage(Respond(fleet[i].URL, worker[i].page))
    /\ worker' = [worker EXCEPT ![i].finalProducts = @ \o Respond(fleet[i].URL, worker[i].page).Products,
                                ![i].page = @ + 1]
    /\ UNCHANGED <<pc, refresh, fleet, disk, launched, wg, ch, closed, closer, received, all, fetched>>
    /\ UNCHANGED notScrape

\* make(chan result, len(vendors))
capacity(vendors) == Len(vendors)

\* ch <- result{...}: blocks while the buffer is full
Send(i) ==
    /\ worker[i].pc = "send"
    /\ Len(ch) < capacity(fleet)
    /\ ch' = Append(ch, worker[i].result)
    /\ worker' = [worker EXCEPT ![i].pc = "sent"]
    /\ UNCHANGED <<pc, refresh, fleet, disk, launched, wg, closed, closer, received, all, fetched>>
    /\ UNCHANGED notScrape

\* the deferred wg.Done()
Done(i) ==
    /\ worker[i].pc = "sent"
    /\ wg' = wg - 1
    /\ worker' = [worker EXCEPT ![i].pc = "exited"]
    /\ UNCHANGED <<pc, refresh, fleet, disk, launched, ch, closed, closer, received, all, fetched>>
    /\ UNCHANGED notScrape

Wait ==
    /\ closer = "wait"
    /\ wg = 0
    /\ closer' = "close"
    /\ UNCHANGED <<pc, refresh, fleet, disk, launched, wg, ch, closed, worker, received, all, fetched>>
    /\ UNCHANGED notScrape

Close ==
    /\ closer = "close"
    /\ closed' = closed + 1
    /\ closer' = "exited"
    /\ UNCHANGED <<pc, refresh, fleet, disk, launched, wg, ch, worker, received, all, fetched>>
    /\ UNCHANGED notScrape

\* the products of one result that ApplyRules keeps, as ApplyRules leaves them
RECURSIVE keptOf(_, _, _)
keptOf(name, products, k) ==
    IF k > Len(products) THEN << >>
    ELSE (IF ApplyRules(Registry, name, products[k]).keep
          THEN <<[Vendor |-> name, Product |-> ApplyRules(Registry, name, products[k]).p]>>
          ELSE << >>)
         \o keptOf(name, products, k + 1)

\* variant of Receive: a result with an error ends the collecting loop
ReceiveStopsOnError ==
    /\ pc = "range"
    /\ ch # << >>
    /\ ch' = Tail(ch)
    /\ received' = Append(received, Head(ch).VendorName)
    /\ all' = IF Head(ch).Err # "" THEN all
              ELSE all \o keptOf(Head(ch).VendorName, Head(ch).Products, 1)
    /\ pc' = IF Head(ch).Err # "" THEN "returned" ELSE pc
    /\ UNCHANGED <<refresh, fleet, disk, launched, wg, closed, worker, closer, fetched>>
    /\ UNCHANGED notScrape

\* one iteration of for res := range ch
Receive ==
    /\ pc = "range"
    /\ ch # << >>
    /\ ch' = Tail(ch)
    /\ received' = Append(received, Head(ch).VendorName)
    /\ all' = IF Head(ch).Err # "" THEN all
              ELSE all \o keptOf(Head(ch).VendorName, Head(ch).Products, 1)
    /\ UNCHANGED <<pc, refresh, fleet, disk, launched, wg, closed, worker, closer, fetched>>
    /\ UNCHANGED notScrape

\* the range loop ends when ch is closed and drained
Return ==
    /\ pc = "range"
    /\ ch = << >>
    /\ closed > 0
    /\ pc' = "returned"
    /\ UNCHANGED <<refresh, fleet, disk, launched, wg, ch, closed, worker, closer, received, all, fetched>>
    /\ UNCHANGED notScrape

NextScrape ==
    \/ Launch
    \/ StartCloser
    \/ \E i \in 1..NumVendors : Load(i)
    \/ \E i \in 1..NumVendors : Scrape(i)
    \/ \E i \in 1..NumVendors : FetchFails(i)
    \/ \E i \in 1..NumVendors : FetchEnds(i)
    \/ \E i \in 1..NumVendors : FetchPage(i)
    \/ \E i \in 1..NumVendors : Send(i)
    \/ \E i \in 1..NumVendors : Done(i)
    \/ Wait
    \/ Close
    \/ Receive
    \/ Return

\* the Go scheduler: while some goroutine can take a step, one of them does
SpecScrape == InitScrape /\ [][NextScrape]_vars /\ WF_vars(NextScrape)

\* the results of vendor i sent so far: those in the buffer and those received
sentBy(i) ==
    Cardinality({k \in 1..Len(ch) : ch[k].VendorName = fleet[i].Name})
        + Occurrences(received, fleet[i].Name)

\* no send blocks, every goroutine sends once, ch is closed once and after
\* every send, and the loop has received one result per vendor when it ends
FanoutSafe ==
    /\ \A i \in 1..Len(worker) : worker[i].pc = "send" => Len(ch) < capacity(fleet)
    /\ \A i \in 1..Len(worker) :
          sentBy(i) = IF worker[i].pc \in {"sent", "exited"} THEN 1 ELSE 0
    /\ closed <= 1
    /\ closed = 1 => \A i \in 1..Len(worker) : worker[i].pc = "exited"
    /\ pc = "returned" =>
          /\ Len(received) = Len(fleet)
          /\ \A i \in 1..Len(fleet) : Occurrences(received, fleet[i].Name) = 1

PageCap == 52

MaxPages == 3

Storefronts ==
    {Front("endless", 0, size) : size \in 1..2}
    \cup {Front(kind, n, size) : kind \in {"pages", "fails", "html"}, n \in 1..MaxPages,
                                 size \in 1..2}
    \cup {Front("pages", 0, 1)}

InitShopify ==
    /\ fleet \in {<<[Name |-> "Nutricost", URL |-> front, Cloudflare |-> FALSE]>> :
                     front \in Storefronts}
    /\ pc = "fetch"
    /\ page = 1
    /\ finalProducts = << >>
    /\ requests = 0
    /\ fetchResult = NotCalled
    /\ vendorName = "" /\ product = << >>
    /\ analyzer = [Rules |-> NoRegistry, Supplements |-> Supplements]
    /\ Registry = NoRegistry
    /\ refresh = FALSE /\ disk = << >> /\ launched = 0 /\ wg = 0
    /\ ch = << >> /\ closed = 0 /\ worker = << >> /\ closer = "idle"
    /\ received = << >> /\ all = << >> /\ fetched = {}
    /\ IdleLoop /\ IdleConcurrent /\ IdleAudit /\ IdleType

notShopify == <<vendorName, product, analyzer, Registry, idx, results, owner, trace, keep, concurrentVars, auditVars, scrapeVars, typeVars>>

\* client.Do fails: return nil and the error
DoFails ==
    /\ pc = "fetch"
    /\ page <= PageCap
    /\ Respond(fleet[1].URL, page).err
    /\ requests' = requests + 1
    /\ fetchResult' = Result(fleet[1].Name, << >>, "failed fetching page")
    /\ pc' = "fetched"
    /\ UNCHANGED <<page, finalProducts>>
    /\ UNCHANGED notShopify

\* the body is not JSON or lists no product: break, return finalProducts
Break ==
    /\ pc = "fetch"
    /\ page <= PageCap
    /\ ~Respond(fleet[1].URL, page).err
    /\ lastPage(Respond(fleet[1].URL, page))
    /\ requests' = requests + 1
    /\ fetchResult' = Result(fleet[1].Name, finalProducts, "")
    /\ pc' = "fetched"
    /\ UNCHANGED <<page, finalProducts>>
    /\ UNCHANGED notShopify

\* the page lists products: append them, page++
NextPage ==
    /\ pc = "fetch"
    /\ page <= PageCap
    /\ ~Respond(fleet[1].URL, page).err
    /\ ~lastPage(Respond(fleet[1].URL, page))
    /\ requests' = requests + 1
    /\ finalProducts' = finalProducts \o Respond(fleet[1].URL, page).Products
    /\ page' = page + 1
    /\ UNCHANGED <<pc, fetchResult>>
    /\ UNCHANGED notShopify

NextShopify ==
    \/ DoFails
    \/ Break
    \/ NextPage

SpecShopify == InitShopify /\ [][NextShopify]_vars

PageLimit == 50

\* C18: the Shopify scraper has a hard page limit of 50: it requests at most
\* 50 pages, also from a storefront that returns a non-empty product list
\* for every page number.
AtMostFiftyPages == requests <= PageLimit

\* the goroutine of vendor i has decided between the network and the file
decided(i) == worker[i].pc \notin {"idle", "start"}

\* C19: a vendor flagged Cloudflare is never fetched from the network: for
\* every combination of the refresh flag and the presence of its local JSON
\* file scrapeOrLoad only loads the file; a vendor not flagged Cloudflare is
\* fetched if and only if refresh is set or its local file does not exist.
CloudflareNeverFetched ==
    \A i \in 1..Len(fleet) :
        /\ fleet[i].Cloudflare => fleet[i].Name \notin fetched
        /\ decided(i) =>
              /\ worker[i].loaded <=> fleet[i].Name \notin fetched
              /\ fleet[i].Cloudflare => worker[i].loaded
              /\ ~fleet[i].Cloudflare =>
                    (fleet[i].Name \in fetched <=> refresh \/ ~worker[i].existed)

\* a Cloudflare vendor without a local file, under refresh, whose goroutine
\* has finished with the error of the failed load
CloudflareNeverFetchedWitness ==
    \E i \in 1..Len(fleet) :
        /\ fleet[i].Cloudflare
        /\ refresh
        /\ worker[i].pc = "exited"
        /\ ~worker[i].existed
        /\ worker[i].result.Err # ""

(***************************************************************************)
(* triageDirtyData on its own: one call on given arguments.                *)
(***************************************************************************)
TriageNames ==
    {"NMN Unflavored Blend", "Creatine Unflavored 30 Servings", "NMN Unflavored",
     "Berry Flavor NMN", "Watermelon Complex", "NMN 500mg",
     "NMN UNFLAVORED Powder with TMG"}

TriageHandles == {"best-seller", "lipo-gummies", "nmn-30-servings"}

TriageTitles == {"NMN Capsules", "Mango Blend"}

TriageArgs ==
    {[called |-> TRUE, usedOverride |-> u, displayName |-> n, handle |-> h, title |-> t] :
        u \in BOOLEAN, n \in TriageNames, h \in TriageHandles, t \in TriageTitles}

InitTriage ==
    /\ triageArgs \in TriageArgs
    /\ review = NotCalled
    /\ gap = NotCalled
    /\ pc = "triage"
    /\ vendorName = "" /\ product = << >>
    /\ analyzer = [Rules |-> NoRegistry, Supplements |-> Supplements]
    /\ Registry = NoRegistry
    /\ IdleLoop /\ IdleConcurrent /\ IdleShopify /\ IdleScrape /\ IdleType

CallTriageDirtyData ==
    /\ pc = "triage"
    /\ review' = triageDirtyData(triageArgs.usedOverride, triageArgs.displayName,
                                 triageArgs.handle, triageArgs.title)
    /\ pc' = "triaged"
    /\ UNCHANGED <<vendorName, product, analyzer, Registry, idx, results, owner, trace, keep>>
    /\ UNCHANGED <<gap, triageArgs, concurrentVars, shopifyVars, scrapeVars, typeVars>>

NextTriage == CallTriageDirtyData

SpecTriage == InitTriage /\ [][NextTriage]_vars

\* the text the scan reads
scanned == ToLower(triageArgs.displayName) \o " " \o ToLower(triageArgs.handle) \o " " \o ToLower(triageArgs.title)

\* keyword k is contained in the text and is not "flavor" inside "unflavored"
genuine(k) ==
    /\ Contains(scanned, dirtyKeywords[k])
    /\ ~(dirtyKeywords[k] = "flavor" /\ Contains(scanned, "unflavored"))

firstGenuine == CHOOSE k \in 1..Len(dirtyKeywords) : genuine(k) /\ \A j \in 1..(k - 1) : ~genuine(j)

unflagged == [needsReview |-> FALSE, reviewReason |-> ""]

\* C20: the triage scan runs only when the mass was not override-sourced;
\* it flags the record with "Detected dirty keyword: <kw>" for the first
\* keyword of the ordered list contained in the lowercased display name,
\* handle and title; "flavor" is skipped when the text contains
\* "unflavored" and the scan goes on with the other keywords, unless the
\* text also contains "serv", and then the record is flagged at once with
\* the servings reason; with no genuine match the record is not flagged.
TriageScan ==
    pc = "triaged" =>
        IF triageArgs.usedOverride THEN review = unflagged
        ELSE IF Contains(scanned, "unflavored") /\ Contains(scanned, "serv")
        THEN /\ review.needsReview
             /\ review.reviewReason = "Detected 'unflavored' but uses 'servings' (needs manual math check)"
        ELSE IF \E k \in 1..Len(dirtyKeywords) : genuine(k)
        THEN /\ review.needsReview
             /\ review.reviewReason = "Detected dirty keyword: " \o dirtyKeywords[firstGenuine]
        ELSE review = unflagged

\* an unflavored blend without servings, flagged by "blend"
TriageScanWitness ==
    /\ pc = "triaged"
    /\ Contains(scanned, "unflavored")
    /\ ~Contains(scanned, "serv")
    /\ review.needsReview
    /\ review.reviewReason = "Detected dirty keyword: blend"

(***************************************************************************)
(* The pure-powder fallback (analyzer.go:629-640), read back from the      *)
(* records: the locals of the iteration give the mass and pack multiplier, *)
(* the label weight is resolved again from the configuration.              *)
(***************************************************************************)
capsuleOnly(k) == RPos(localsOf(k).capsuleMass) /\ localsOf(k).powderMass = Zero

resolvedGross(k) ==
    extractGrossGrams(config.spec, config.hasOverride, variantOf(k).Title, product.Title,
                      capsuleOnly(k), localsOf(k).packMultiplier)

fallbackTarget(k) ==
    ToLower(product.Title \o " " \o variantOf(k).Title \o " " \o product.Handle)

fallbackApplies(k) ==
    /\ ~localsOf(k).usedOverride
    /\ ~capsuleOnly(k)
    /\ RPos(resolvedGross(k))
    /\ \A i \in 1..Len(dirtyKeywords) : ~Contains(fallbackTarget(k), dirtyKeywords[i])

PowderTexts ==
    { Text("Cooler Creatine 500g", "", ""),
      Text("Creatine Monohydrate 500 Grams", "", ""),
      Text("Watermelon Creatine Blend 500 GMS", "", ""),
      Text("NMN Powder 500mg 60 Capsules", "", "") }

PowderHandles == {"best-seller", "creatine-island"}

PowderProducts ==
    { [Title |-> x.Title, Context |-> x.Context, Handle |-> h, BodyHTML |-> x.BodyHTML,
       ImageURL |-> "img.png", Variants |-> vs] :
         x \in PowderTexts, h \in PowderHandles, vs \in SeqsUpTo(VariantPool, MaxVariants) }

InitPowder ==
    /\ vendorName \in Vendors
    /\ product \in PowderProducts
    /\ analyzer \in Analyzers
    /\ Registry = NoRegistry
    /\ pc = "call"
    /\ IdleLoop
    /\ IdleConcurrent /\ IdleAudit /\ IdleShopify /\ IdleScrape /\ IdleType

NextPowder == ReturnNil \/ EnterLoop \/ SkipVariant \/ EmitVariant \/ ReturnResults

SpecPowder == InitPowder /\ [][NextPowder]_vars

\* C22: whenever the pure-powder fallback replaces a variant's activeGrams
\* with grossGrams, the record emitted for that variant has needsReview =
\* false; a record flagged for review keeps activeGrams = baseMass x
\* packMultiplier.
FallbackNeverFlagged ==
    \A k \in Records :
        /\ localsOf(k).fallback => ~results[k].NeedsReview
        /\ results[k].NeedsReview
              => results[k].ActiveGrams = RMul(baseMassOf(k), localsOf(k).packMultiplier)

grossOverrideApplies(v) ==
    config.hasOverride /\ RPos(MapGet(config.spec.VariantGrossOverrides, v.Title))

\* C23: a capsule-only variant (capsule mass > 0, powder mass = 0) without a
\* positive variantGrossOverrides entry is emitted with grossGrams = 0,
\* whatever its title, handle, context and classified type.
CapsuleOnlyHasNoGross ==
    \A k \in Records :
        capsuleOnly(k) /\ ~grossOverrideApplies(variantOf(k))
            => results[k].GrossGrams = Zero

(***************************************************************************)
(* AnalyzeProduct on texts that exercise the tiers of the regex path:      *)
(* zero captures, a count in each of its three sources, a serving size,    *)
(* grams only in the description, and no mass at all.                      *)
(***************************************************************************)
MassTexts ==
    { Text("NMN 0g 2kg", "", ""),
      Text("NMN 500mg 30 ct", "", "<p>2 caps per serving</p>"),
      Text("NMN 500mg", "", "<p>0 caps per serving</p>"),
      Text("NAD", "250mg 90 ct", "<p>100g</p>"),
      Text("NAD Booster", "", "<p>100g</p>"),
      Text("NAD Booster 100g", "", "<p>3 pack</p>"),
      Text("NAD Booster", "", "") }

MassVariants ==
    { Variant("Default Title", "29.99", TRUE),
      Variant("60 Capsules", "45", TRUE),
      Variant("0 caps", "10", TRUE),
      Variant("2 Bottles", "45", TRUE),
      Variant("1.5kg", "free", FALSE) }

MassProducts ==
    { [Title |-> x.Title, Context |-> x.Context, Handle |-> "best-seller",
       BodyHTML |-> x.BodyHTML, ImageURL |-> "img.png", Variants |-> vs] :
         x \in MassTexts, vs \in SeqsUpTo(MassVariants, MaxVariants) }

\* the registries of Analyzers, and one whose override forces the type
MassAnalyzers ==
    Analyzers \cup
    { [Rules |-> [isNil |-> FALSE,
                  m |-> [v \in {"Nutricost"} |->
                           Config(<< >>,
                                  ForHandle("best-seller",
                                            Spec1("Hybrid Bundle", Zero, NoMap, NoMap)),
                                  Zero)]],
       Supplements |-> Supplements] }

InitMass ==
    /\ vendorName \in Vendors
    /\ product \in MassProducts
    /\ analyzer \in MassAnalyzers
    /\ Registry = NoRegistry
    /\ pc = "call"
    /\ IdleLoop
    /\ IdleConcurrent /\ IdleAudit /\ IdleShopify /\ IdleScrape /\ IdleType

NextMass == ReturnNil \/ EnterLoop \/ SkipVariant \/ EmitVariant \/ ReturnResults

SpecMass == InitMass /\ [][NextMass]_vars

\* the tiers of the regex path as C24 words them
gramsOrKg(g, kg) == IF g.ok THEN g.v ELSE IF kg.ok THEN RMul(kg.v, Thousand) ELSE Zero

tierA(p, v) ==
    gramsOrKg(extractFloat(reGrams, cleanSearchOf(p, v)),
              extractFloat(reKg, cleanSearchOf(p, v)))

firstCount(inVariant, inClean, inBroad) ==
    IF inVariant.ok THEN inVariant ELSE IF inClean.ok THEN inClean ELSE inBroad

perServing(mg, count, serving) ==
    IF mg.ok /\ count.ok
    THEN RDiv(RMul(RDiv(mg.v, IF serving.ok THEN serving.v ELSE One), count.v), Thousand)
    ELSE Zero

tierB(p, v) ==
    perServing(extractFloat(reMg, broadSearchOf(p, v)),
               firstCount(extractFloat(reCount, v.Title),
                          extractFloat(reCount, cleanSearchOf(p, v)),
                          extractFloat(reCount, broadSearchOf(p, v))),
               extractFloat(reServing, broadSearchOf(p, v)))

tierC(p, v) == extractFloat(reGrams, broadSearchOf(p, v)).v

regexMass(p, v) ==
    IF RPos(tierA(p, v)) THEN Mass(Zero, tierA(p, v), FALSE)
    ELSE IF RPos(tierB(p, v)) THEN Mass(tierB(p, v), Zero, FALSE)
    ELSE Mass(Zero, tierC(p, v), FALSE)

onRegexPath(i) ==
    /\ trace[i].outcome \in {"mass", "emit"}
    /\ ~variantOverrideApplies(product.Variants[i])
    /\ ~productOverrideApplies

massOf(l) == Mass(l.capsuleMass, l.powderMass, l.usedOverride)

\* C24: on the regex path the first tier with a positive value wins: grams,
\* else kg x 1000, in product title + variant title (powder); else mg in the
\* broad string with a count from the variant title, else product + variant
\* title, else the broad string, capsuleMass = (mg / servingSize) x count /
\* 1000, servingSize from the per-serving pattern or 1; else grams in the
\* broad string (powder); otherwise the mass is 0 and the variant is
\* excluded.  A zero capture counts as not found.
RegexTiers ==
    \A i \in 1..Len(trace) :
        onRegexPath(i) =>
            IF regexMass(product, product.Variants[i]) = Mass(Zero, Zero, FALSE)
            THEN trace[i].outcome = "mass"
            ELSE /\ trace[i].outcome = "emit"
                 /\ massOf(trace[i].locals) = regexMass(product, product.Variants[i])

\* a zero count in the variant title fell through to the count of the titles
RegexTiersWitness ==
    /\ Len(trace) >= 1
    /\ onRegexPath(1)
    /\ trace[1].outcome = "emit"
    /\ FindStringSubmatch(reCount, product.Variants[1].Title) = "0"
    /\ extractFloat(reCount, cleanSearchOf(product, product.Variants[1])).v = R(30)
    /\ trace[1].locals.capsuleMass = R(15)

(***************************************************************************)
(* The type and bonus steps of one iteration on their own: classifyType    *)
(* and bioavailabilityMultiplier as AnalyzeProduct calls them              *)
(* (analyzer.go:645-649), on any combination of override, pack multiplier  *)
(* and masses.                                                             *)
(***************************************************************************)
TypeTitles ==
    { "NMN", "NMN Softgels", "Lipo NMN Gel Tabs", "NMN Gel Tabs", "NAD Tablets",
      "Liposomal NAD Tablets", "Creatine Powder" }

TypeProducts ==
    { [Title |-> x, Context |-> c, Handle |-> "best-seller", BodyHTML |-> b,
       ImageURL |-> "img.png", Variants |-> << >>] :
         x \in TypeTitles, c \in {"", "Sublingual"},
         b \in {"", "<table>liposomal powder gel</table>"} }

\* what vendorConfig hands on: no override, one without and one with a forceType
TypeOverrides ==
    { [spec |-> ZeroSpec, hasOverride |-> FALSE],
      [spec |-> Spec1("", R(15), NoMap, NoMap), hasOverride |-> TRUE],
      [spec |-> Spec1("Gel", Zero, NoMap, NoMap), hasOverride |-> TRUE] }

ClassifyArgs ==
    { [called |-> TRUE, p |-> q, v |-> Variant("Default Title", "29.99", TRUE),
       spec |-> o.spec, hasOverride |-> o.hasOverride,
       usedOverride |-> u, packMult |-> pm, capsuleMass |-> c, powderMass |-> pw] :
         q \in TypeProducts, o \in TypeOverrides, u \in BOOLEAN,
         pm \in {One, R(2)}, c \in {Zero, R(30)}, pw \in {Zero, R(500)} }

InitClassify ==
    /\ classifyArgs \in ClassifyArgs
    /\ classified = NotCalled
    /\ bonus = NotCalled
    /\ pc = "classify"
    /\ vendorName = "" /\ product = << >>
    /\ analyzer = [Rules |-> NoRegistry, Supplements |-> Supplements]
    /\ Registry = NoRegistry
    /\ IdleLoop /\ IdleConcurrent /\ IdleAudit /\ IdleShopify /\ IdleScrape

notType == <<vendorName, product, analyzer, Registry, idx, results, owner, trace, keep, concurrentVars, auditVars, shopifyVars, scrapeVars>>

CallClassifyType ==
    /\ pc = "classify"
    /\ classified' = classifyType(typeSearchOf(classifyArgs.p, classifyArgs.v),
                                  classifyArgs.spec, classifyArgs.hasOverride,
                                  classifyArgs.usedOverride, classifyArgs.packMult,
                                  classifyArgs.capsuleMass, classifyArgs.powderMass)
    /\ pc' = "classified"
    /\ UNCHANGED <<classifyArgs, bonus>>
    /\ UNCHANGED notType

CallBioavailabilityMultiplier ==
    /\ pc = "classified"
    /\ bonus' = bioavailabilityMultiplier(typeSearchOf(classifyArgs.p, classifyArgs.v),
                                          classified)
    /\ pc' = "scored"
    /\ UNCHANGED <<classifyArgs, classified>>
    /\ UNCHANGED notType

NextClassify == CallClassifyType \/ CallBioavailabilityMultiplier

SpecClassify == InitClassify /\ [][NextClassify]_vars

\* the identity text as C25 words it: no description markup
identity ==
    ToLower(classifyArgs.p.Title \o " " \o classifyArgs.v.Title \o " "
              \o classifyArgs.p.Handle \o " " \o classifyArgs.p.Context)

regexMassed == ~classifyArgs.usedOverride

\* C25: the product type is decided by the first matching rule: forceType
\* of an existing override; pack multiplier > 1 gives "Multi-Pack"; regex
\* mass with capsule and powder mass both > 0 gives "Hybrid Bundle"; regex
\* mass with powder mass > 0 and capsule mass = 0 gives "Powder"; identity
\* text with "gel" but not "softgel" gives "Gel"; with "tab" gives
\* "Tablets"; with "powder" gives "Powder"; otherwise "Capsules".  The
\* identity text is the lowercased title, variant title, handle and context,
\* never the description markup.
TypeOrder ==
    pc \in {"classified", "scored"} =>
        classified =
            IF classifyArgs.hasOverride /\ classifyArgs.spec.ForceType # ""
            THEN classifyArgs.spec.ForceType
            ELSE IF Below(One, classifyArgs.packMult) THEN "Multi-Pack"
            ELSE IF regexMassed /\ RPos(classifyArgs.capsuleMass)
                    /\ RPos(classifyArgs.powderMass)
            THEN "Hybrid Bundle"
            ELSE IF regexMassed /\ RPos(classifyArgs.powderMass)
                    /\ classifyArgs.capsuleMass = Zero
            THEN "Powder"
            ELSE IF Contains(identity, "gel") /\ ~Contains(identity, "softgel") THEN "Gel"
            ELSE IF Contains(identity, "tab") THEN "Tablets"
            ELSE IF Contains(identity, "powder") THEN "Powder"
            ELSE "Capsules"

\* "gel" and "tab" both in the identity text, "powder" only in the description
TypeOrderWitness ==
    /\ pc = "classified"
    /\ classified = "Gel"
    /\ ~classifyArgs.hasOverride
    /\ Contains(identity, "tab")
    /\ Contains(ToLower(classifyArgs.p.BodyHTML), "powder")

\* C26: the bioavailability multiplier is decided by the first matching
\* check: identity text contains "liposomal" or "lipo" gives 1.5 "Lipo
\* Bonus"; else "sublingual" gives 1.1 "Sublingual"; else type Gel gives 1.1
\* "Gel Bonus"; else type Tablets gives 1.1 "Tablet Bonus"; else 1.0 with an
\* empty label.  A liposomal Gel or Tablets product gets 1.5, and the labels
\* "Gel Bonus" and "Tablet Bonus" occur only with type Gel and Tablets.
MultiplierOrder ==
    pc = "scored" =>
        /\ bonus =
              IF Contains(identity, "liposomal") \/ Contains(identity, "lipo")
              THEN [m |-> Rat(3, 2), label |-> "Lipo Bonus"]
              ELSE IF Contains(identity, "sublingual")
              THEN [m |-> Rat(11, 10), label |-> "Sublingual"]
              ELSE IF classified = "Gel" THEN [m |-> Rat(11, 10), label |-> "Gel Bonus"]
              ELSE IF classified = "Tablets"
              THEN [m |-> Rat(11, 10), label |-> "Tablet Bonus"]
              ELSE [m |-> One, label |-> ""]
        /\ classified \in {"Gel", "Tablets"} /\ Contains(identity, "liposomal")
              => bonus.m = Rat(3, 2)
        /\ bonus.label = "Gel Bonus" => classified = "Gel"
        /\ bonus.label = "Tablet Bonus" => classified = "Tablets"

\* a liposomal product classified as Tablets, scored 1.5
MultiplierOrderWitness ==
    /\ pc = "scored"
    /\ classified = "Tablets"
    /\ ~classifyArgs.hasOverride
    /\ Contains(identity, "liposomal")
    /\ bonus = [m |-> Rat(3, 2), label |-> "Lipo Bonus"]

\* the label weight as C27 words it, from the two titles and the pack multiplier
labelOf(g, kg, packMult) ==
    IF g.ok THEN RMul(g.v, packMult)
    ELSE IF kg.ok THEN RMul(RMul(kg.v, Thousand), packMult)
    ELSE Zero

labelWeightOf(i) ==
    labelOf(extractFloat(reLabelGrams, product.Title \o " " \o product.Variants[i].Title),
            extractFloat(reLabelKg, product.Title \o " " \o product.Variants[i].Title),
            trace[i].locals.packMultiplier)

capsuleOnlyAt(i) ==
    RPos(trace[i].locals.capsuleMass) /\ trace[i].locals.powderMass = Zero

\* C27: extractGrossGrams returns variantGrossOverrides[variant title] as it
\* is when the handle has an override and that value is > 0, also for a
\* capsule-only variant; otherwise 0 for a capsule-only variant; otherwise
\* the first positive grams match in product title + variant title times
\* the pack multiplier, else the kilogram match there x 1000 x pack
\* multiplier, else 0.  Context, handle and description are not consulted.
GrossGramsChain ==
    \A i \in 1..Len(trace) :
        trace[i].outcome = "emit" =>
            trace[i].locals.grossGrams =
                IF grossOverrideApplies(product.Variants[i])
                THEN MapGet(config.spec.VariantGrossOverrides, product.Variants[i].Title)
                ELSE IF capsuleOnlyAt(i) THEN Zero
                ELSE labelWeightOf(i)

\* a gross override returned as it is under a pack multiplier of 3 that the
\* description gave, over a title holding 100g
GrossGramsChainWitness ==
    /\ Len(trace) >= 1
    /\ trace[1].outcome = "emit"
    /\ grossOverrideApplies(product.Variants[1])
    /\ trace[1].locals.packMultiplier = R(3)
    /\ extractFloat(reLabelGrams, product.Title).v = R(100)
    /\ trace[1].locals.grossGrams = R(600)

\* the vendors whose scrapeOrLoad returned without an error
succeeded == {i \in 1..Len(fleet) : worker[i].result.Err = ""}

passing(i) ==
    {k \in 1..Len(worker[i].result.Products) :
        ApplyRules(Registry, fleet[i].Name, worker[i].result.Products[k]).keep}

\* vendor and product ID of what scrapeAll should return, and of what it returns
expected ==
    UNION {{<<fleet[i].Name, worker[i].result.Products[k].ID>> : k \in passing(i)} :
              i \in succeeded}

returnedPairs == {<<all[k].Vendor, all[k].Product.ID>> : k \in 1..Len(all)}

\* C28: for every completion order of the vendor goroutines, scrapeAll
\* returns exactly the products that pass the vendor-rule check among the
\* products of the vendors whose scrape or load succeeded; a vendor whose
\* scrape or load fails contributes nothing and keeps no other vendor's
\* products from being returned: the result of every vendor has been
\* received by then.
ReturnsPassingProducts ==
    pc = "returned" =>
        /\ {received[k] : k \in 1..Len(received)} = {fleet[i].Name : i \in 1..Len(fleet)}
        /\ returnedPairs = expected
        /\ Len(all) = Cardinality(returnedPairs)
        /\ \A k \in 1..Len(all) :
              \A i \in 1..Len(fleet) : all[k].Vendor = fleet[i].Name => i \in succeeded

\* scrapeAll returned after the failed vendor's result was received first,
\* with a product of the other vendor kept and one rejected
ReturnsPassingProductsWitness ==
    /\ pc = "returned"
    /\ Len(received) = 2
    /\ \E i \in 1..Len(fleet) : fleet[i].Name = received[1] /\ i \notin succeeded
    /\ \E i \in succeeded : passing(i) # {} /\ passing(i) # 1..Len(worker[i].result.Products)
    /\ all # << >>

\* C29: capsule mass and powder mass are never both positive for the same
\* variant, so the "Hybrid Bundle" rule of the classifier is never taken
\* from AnalyzeProduct: a record has type "Hybrid Bundle" only when the
\* forceType of the handle's override says so.
NeverHybridByMass ==
    /\ \A i \in 1..Len(trace) :
          ~(RPos(trace[i].locals.capsuleMass) /\ RPos(trace[i].locals.powderMass))
    /\ \A k \in Records :
          results[k].Type = "Hybrid Bundle"
              => config.hasOverride /\ config.spec.ForceType = "Hybrid Bundle"

\* a variant whose broad string holds milligrams, a count and grams, emitted
\* with capsule mass only and a type other than "Hybrid Bundle"
NeverHybridByMassWitness ==
    \E k \in Records :
        /\ extractFloat(reMg, broadSearchOf(product, variantOf(k))).ok
        /\ extractFloat(reCount, broadSearchOf(product, variantOf(k))).ok
        /\ extractFloat(reGrams, broadSearchOf(product, variantOf(k))).ok
        /\ capsuleOnly(k)
        /\ ~localsOf(k).usedOverride
        /\ results[k].Type = "Capsules"

\* C30: every AuditResult that AuditProduct returns, on every path (no
\* variants, no available priced variant, nothing extractable, partially
\* extractable), has a non-empty Missing list.
GapNamesWhatIsMissing ==
    pc = "audited" /\ ~gap.isNil =>
        /\ Len(gap.Missing) >= 1
        /\ \A k \in 1..Len(gap.Missing) : gap.Missing[k] # ""

\* a gap on the partially extractable path: a priced variant, a weight found
GapNamesWhatIsMissingWitness ==
    /\ pc = "audited"
    /\ ~gap.isNil
    /\ gap.VariantCt > 0
    /\ gap.GramsFound \/ gap.KgFound
    /\ gap.Missing = <<"data was partially found but activeGrams still computed to 0 (check overrides)">>

====
